---- MODULE Spec2Model ----
(***************************************************************************)
(* A model of the pre-training data collator of FlashT5LENS                *)
(* (src/FlashT5LENS/src/data/data_collator_pt.py): the span noise mask     *)
(* generator, the segment-aware masker, the sentinel encoder, the sequence *)
(* compactor and the batch assembler DataCollatorForPretrain.__call__.     *)
(*                                                                         *)
(* numpy arrays are sequences (1-based), a 2-D array is a sequence of      *)
(* rows.  np.random is a nondeterministic choice: an operator that draws   *)
(* at random denotes the SET of the values it can return.  A call either   *)
(* returns a value or raises; both are records [err, val], err = "none"    *)
(* for a normal return.  noise_density is a rational [num, den]; the model *)
(* draws dyadic densities, for which the float product length * density    *)
(* is exact.                                                               *)
(***************************************************************************)
EXTENDS Integers, Sequences, FiniteSets, TLC

\* ------------------------------------------------------------------ ids
PAD_ID == 0
EOS_ID == 1
HEAD_ID == 3
PKT_ID == 4
\* the ignore id: padding of the preprocessed rows and of the labels
IGNORE_ID == -100
\* create_sentinel_ids: extra_start_token_id
extra_start_token_id == 107

\* ------------------------------------------------------------------ bounds
\* longest run handed to the span noise mask generator on its own
MaxSegLen == 8
\* longest flag array handed to the segment-aware masker on its own
MaxFlagsLen == 6
\* widest mask row handed to the sentinel encoder and the compactor on their own
MaxRowLen == 4
\* most rows of a batch
MaxBatch == 2
\* optimal_len of the collated flows, and the most packets of one flow
OptimLen == 8
PktPerFlow == 2
\* optim_len of the preprocessed flows, the most packets of one flow, and
\* the longest header or payload of a packet
TokOptimLen == 12
TokPktPerFlow == 4
MaxPartLen == 3
\* most json files and most records of one, the worker processes of the map
\* and the rows of one batch handed to tokenize_pt_func
MaxFiles == 3
MaxFileRecords == 3
NumProc == 2
MapBatchSize == 2

NoErr == "none"
Ok(v) == [err |-> NoErr, val |-> v]
Raise(e) == [err |-> e, val |-> <<>>]

\* ------------------------------------------------------------------ numpy
Min(a, b) == IF a < b THEN a ELSE b
Max(a, b) == IF a > b THEN a ELSE b

\* int(np.round(n / d)) for n >= 0, d > 0: round half to even
NpRound(n, d) ==
    LET q == n \div d
        r == n % d
    IN  IF 2 * r < d THEN q
        ELSE IF 2 * r > d THEN q + 1
        ELSE IF q % 2 = 0 THEN q ELSE q + 1

\* an array given by its entries, as a sequence
Arr(f) == f \o <<>>

\* the running sums of s[lo..hi] on top of base (the range is halved to keep
\* the evaluation shallow on long rows)
RECURSIVE CumSumRange(_, _, _, _)
CumSumRange(s, lo, hi, base) ==
    IF lo > hi THEN <<>>
    ELSE IF lo = hi THEN <<base + s[lo]>>
    ELSE LET mid == (lo + hi) \div 2
             left == CumSumRange(s, lo, mid, base)
         IN  left \o CumSumRange(s, mid + 1, hi, left[Len(left)])

\* np.cumsum over the last axis of a 1-D array
NpCumSum(s) == CumSumRange(s, 1, Len(s), 0)

SeqSum(s) == IF Len(s) = 0 THEN 0 ELSE NpCumSum(s)[Len(s)]

\* np.unique(ids, return_counts=True)[1]: the number of occurrences of each
\* distinct value, the values in ascending order
NpUniqueCounts(ids) ==
    LET vals == {ids[i] : i \in 1..Len(ids)}
        rank == [v \in vals |-> Cardinality({u \in vals : u < v}) + 1]
        ranks == Arr([i \in 1..Len(ids) |-> rank[ids[i]]])
    IN  Arr([k \in 1..Cardinality(vals) |->
                Cardinality({i \in 1..Len(ids) : ranks[i] = k})])

\* np.random.shuffle(a) of a 0/1 array: every arrangement of its entries
NpShuffle(a) ==
    {b \in [1..Len(a) -> {0, 1}] : SeqSum(b) = SeqSum(a)}

\* ------------------------------------------------------------------ the generator
\* _random_segmentation(num_items, num_segments): the segment lengths it can return
_random_segmentation(num_items, num_segments) ==
    LET n == Max(num_items - 1, 0)
        mask_indices == Arr([i \in 1..n |-> IF i - 1 < num_segments - 1 THEN 1 ELSE 0])
    IN  {NpUniqueCounts(NpCumSum(<<0>> \o first)) : first \in NpShuffle(mask_indices)}

\* lines 276-286: interleave the span lengths, mark the span starts, keep the odd spans
SpansToMask(length, nonnoise_span_lengths, noise_span_lengths) ==
    IF Len(nonnoise_span_lengths) # Len(noise_span_lengths)
    THEN Raise("ValueError")      \* np.stack of arrays of different shapes
    ELSE
      LET num_noise_spans == Len(noise_span_lengths)
          interleaved_span_lengths ==
              Arr([i \in 1..(2 * num_noise_spans) |->
                  IF i % 2 = 1 THEN nonnoise_span_lengths[(i + 1) \div 2]
                  ELSE noise_span_lengths[i \div 2]])
          cum == NpCumSum(interleaved_span_lengths)
          span_starts == {cum[i] : i \in 1..(Len(cum) - 1)}
      IN  IF \E st \in span_starts : st >= length
          THEN Raise("IndexError")  \* span_start_indicator[span_starts] out of bounds
          ELSE
            LET span_start_indicator ==
                    Arr([i \in 1..length |-> IF (i - 1) \in span_starts THEN 1 ELSE 0])
                span_num == NpCumSum(span_start_indicator)
            IN  Ok(Arr([i \in 1..length |-> span_num[i] % 2 = 1]))

\* random_spans_noise_mask(length), length >= 1: the results it can produce
random_spans_noise_mask(slf, length) ==
    LET num_noise_tokens0 ==
            NpRound(length * slf.noise_density.num, slf.noise_density.den)
        num_noise_tokens == Min(Max(num_noise_tokens0, 1), length - 1)
        num_noise_spans ==
            Max(NpRound(num_noise_tokens, slf.mean_noise_span_length), 1)
        num_nonnoise_tokens == length - num_noise_tokens
    IN  {SpansToMask(length, nonnoise, noise) :
            noise \in _random_segmentation(num_noise_tokens, num_noise_spans),
            nonnoise \in _random_segmentation(num_nonnoise_tokens, num_noise_spans)}

\* ------------------------------------------------------------------ the masker
\* lines 196-202: the length of the run of 1s that follows each 0 of the
\* left-padded flag array (the pad is the first 0)
SegmentLen(attn_mask) ==
    LET padded == <<0>> \o attn_mask
        segment_id == NpCumSum(Arr([i \in 1..Len(padded) |-> IF padded[i] = 0 THEN 1 ELSE 0]))
        counts == NpUniqueCounts(segment_id)
    IN  Arr([k \in 1..Len(counts) |-> counts[k] - 1])

\* one turn of the loop with the test of line 211 strict: a run of exactly
\* min_mask_span_length flags is left alone
MaskSegment_Strict(slf, seg_len, st) ==
    LET fm == Append(st.val, FALSE)
    IN  IF st.err # NoErr THEN {st}
        ELSE IF seg_len > slf.min_mask_span_length
        THEN {IF r.err # NoErr
              THEN [err |-> r.err, val |-> <<>>, calls |-> st.calls]
              ELSE [err |-> NoErr, val |-> fm \o r.val,
                    calls |-> Append(st.calls,
                                [at |-> Len(fm), length |-> seg_len, mask |-> r.val])]
              : r \in random_spans_noise_mask(slf, seg_len)}
        ELSE {[st EXCEPT !.val = fm \o Arr([i \in 1..seg_len |-> FALSE])]}

\* lines 208-215: one turn of the loop, for a segment of seg_len flags, from
\* the loop state st: final_mask, the error raised so far, and the log of the
\* generator calls made (where the run starts in the flag array, its length,
\* the mask the generator returned)
MaskSegment(slf, seg_len, st) ==
    LET fm == Append(st.val, FALSE)
    IN  IF st.err # NoErr THEN {st}
        ELSE IF seg_len >= slf.min_mask_span_length
        THEN {IF r.err # NoErr
              THEN [err |-> r.err, val |-> <<>>, calls |-> st.calls]
              ELSE [err |-> NoErr, val |-> fm \o r.val,
                    calls |-> Append(st.calls,
                                [at |-> Len(fm), length |-> seg_len, mask |-> r.val])]
              : r \in random_spans_noise_mask(slf, seg_len)}
        ELSE {[st EXCEPT !.val = fm \o Arr([i \in 1..seg_len |-> FALSE])]}

\* lines 207-215: the turns lo..hi of the loop, from each of the loop states
\* sts (the range is halved to keep the evaluation shallow on long rows)
RECURSIVE MaskSegments(_, _, _, _, _)
MaskSegments(slf, segment_len, lo, hi, sts) ==
    IF lo > hi THEN sts
    ELSE IF lo = hi
    THEN UNION {MaskSegment(slf, segment_len[lo], st) : st \in sts}
    ELSE LET mid == (lo + hi) \div 2
             first == MaskSegments(slf, segment_len, lo, mid, sts)
         IN  IF first = {} THEN {}
             ELSE MaskSegments(slf, segment_len, mid + 1, hi, first)

\* segment_spans_random_mask(attn_mask): the results it can produce
segment_spans_random_mask(slf, attn_mask) ==
    LET segment_len == SegmentLen(attn_mask)
    IN  {IF r.err # NoErr THEN r
         ELSE IF Len(r.val) # Len(attn_mask) + 1
              THEN [err |-> "AssertionError", val |-> <<>>, calls |-> r.calls]
              ELSE [r EXCEPT !.val = Tail(r.val)]
         : r \in MaskSegments(slf, segment_len, 1, Len(segment_len),
                              {[err |-> NoErr, val |-> <<>>, calls |-> <<>>]})}

\* ------------------------------------------------------------------ the sentinel encoder
\* np.roll(row, 1)
NpRoll1(row) == Arr([i \in 1..Len(row) |-> row[IF i = 1 THEN Len(row) ELSE i - 1]])

\* the span starts without the override of the first column (line 296): the
\* first position is compared with the last one, which np.roll wrapped around
StartIndices_Circular(row) ==
    LET rolled == NpRoll1(row)
    IN  Arr([i \in 1..Len(row) |-> row[i] - rolled[i] * row[i]])

\* lines 295-296 on one row: the span starts
StartIndices(row) ==
    LET rolled == NpRoll1(row)
        start_indices == Arr([i \in 1..Len(row) |-> row[i] - rolled[i] * row[i]])
    IN  [start_indices EXCEPT ![1] = row[1]]

\* lines 294-306 on one row of a 0/1 mask
SentinelRow(row) ==
    LET start_indices == StartIndices(row)
        cum == NpCumSum(start_indices)
        numbered == Arr([i \in 1..Len(row) |->
                        IF start_indices[i] # 0 THEN cum[i] ELSE start_indices[i]])
        sentinel_ids == Arr([i \in 1..Len(row) |->
                        IF numbered[i] # 0 THEN extra_start_token_id - numbered[i] ELSE 0])
    IN  Arr([i \in 1..Len(row) |-> sentinel_ids[i] - (row[i] - start_indices[i])])

\* create_sentinel_ids(mask_indices), mask_indices a 2-D 0/1 array
create_sentinel_ids(mask_indices) ==
    Arr([r \in 1..Len(mask_indices) |-> SentinelRow(mask_indices[r])])

\* ------------------------------------------------------------------ the compactor
NonNegative(x) == x >= 0

\* the compactor padding the labels as it pads the inputs, with the pad id
FilterRow_PadId(row, sentinel_row, set_length, is_label) ==
    LET input_ids_full == Arr([i \in 1..Len(row) |->
                             IF sentinel_row[i] # 0 THEN sentinel_row[i] ELSE row[i]])
        kept == SelectSeq(input_ids_full, NonNegative)
        arr == IF is_label THEN SubSeq(kept, 1, Len(kept) - 1) ELSE kept
        width == set_length - Len(arr) - 1
    IN  IF width < 0 THEN Raise("ValueError")
        ELSE Ok(arr \o <<EOS_ID>> \o Arr([i \in 1..width |-> PAD_ID]))

\* the compactor cutting a row that is too long down to set_length instead of
\* failing
FilterRow_Truncate(row, sentinel_row, set_length, is_label) ==
    LET input_ids_full == Arr([i \in 1..Len(row) |->
                             IF sentinel_row[i] # 0 THEN sentinel_row[i] ELSE row[i]])
        kept == SelectSeq(input_ids_full, NonNegative)
        arr == IF is_label THEN SubSeq(kept, 1, Len(kept) - 1) ELSE kept
        fill == IF is_label THEN IGNORE_ID ELSE PAD_ID
        width == set_length - Len(arr) - 1
    IN  IF width < 0 THEN Ok(SubSeq(arr \o <<EOS_ID>>, 1, set_length))
        ELSE Ok(arr \o <<EOS_ID>> \o Arr([i \in 1..width |-> fill]))

\* lines 314-327 on one row: overlay, compact, end-marker, pad (np.pad raises
\* ValueError on a negative pad width)
FilterRow(row, sentinel_row, set_length, is_label) ==
    LET input_ids_full == Arr([i \in 1..Len(row) |->
                             IF sentinel_row[i] # 0 THEN sentinel_row[i] ELSE row[i]])
        kept == SelectSeq(input_ids_full, NonNegative)
        arr == IF is_label THEN SubSeq(kept, 1, Len(kept) - 1) ELSE kept
        fill == IF is_label THEN IGNORE_ID ELSE PAD_ID
        width == set_length - Len(arr) - 1
    IN  IF width < 0 THEN Raise("ValueError")
        ELSE Ok(arr \o <<EOS_ID>> \o Arr([i \in 1..width |-> fill]))

\* filter_input_ids(input_ids, sentinel_ids, set_length, is_label)
filter_input_ids(input_ids, sentinel_ids, set_length, is_label) ==
    LET rows == Arr([r \in 1..Len(input_ids) |->
                    FilterRow(input_ids[r], sentinel_ids[r], set_length, is_label)])
    IN  IF \E r \in 1..Len(rows) : rows[r].err # NoErr
        THEN Raise("ValueError")
        ELSE Ok(Arr([r \in 1..Len(rows) |-> rows[r].val]))

\* ------------------------------------------------------------------ the batch assembler
\* DataCollatorForPretrain.__init__ keeping the length of the preprocessed rows
\* as the length of the inputs
DataCollatorForPretrain_init_OptimalLen(cfg) ==
    [max_length |-> cfg.optimal_len,
     optimal_len |-> cfg.optimal_len,
     max_labels_length |-> cfg.max_labels_length,
     noise_density |-> cfg.noise_density,
     mean_noise_span_length |-> cfg.mean_noise_span_length,
     min_mask_span_length |-> cfg.min_mask_span_length]

\* DataCollatorForPretrain.__init__: the fields the collate call reads
DataCollatorForPretrain_init(cfg) ==
    [max_length |-> cfg.max_length,
     optimal_len |-> cfg.optimal_len,
     max_labels_length |-> cfg.max_labels_length,
     noise_density |-> cfg.noise_density,
     mean_noise_span_length |-> cfg.mean_noise_span_length,
     min_mask_span_length |-> cfg.min_mask_span_length]

\* line 109: np.sum(input_ids != -100) of one row
RealLen(row) == Cardinality({j \in 1..Len(row) : row[j] # IGNORE_ID})

\* lines 112-114 and the slice of line 119: the flags of the real part of a row
AttnMask(row) ==
    Arr([j \in 1..RealLen(row) |-> IF row[j] = PKT_ID \/ row[j] = HEAD_ID THEN 0 ELSE 1])

\* lines 116-126: the mask of every row from row i on, each padded with False
\* to optimal_len (np.pad raises ValueError on a negative pad width)
RECURSIVE SpansNoiseMasks(_, _, _, _, _)
SpansNoiseMasks(slf, input_ids, i, masks, calls) ==
    IF i > Len(input_ids)
    THEN {[err |-> NoErr, val |-> masks, calls |-> calls]}
    ELSE
      LET width == slf.optimal_len - RealLen(input_ids[i])
      IN  UNION {
            IF r.err # NoErr THEN {[err |-> r.err, val |-> <<>>, calls |-> <<>>]}
            ELSE IF width < 0 THEN {[err |-> "ValueError", val |-> <<>>, calls |-> <<>>]}
            ELSE SpansNoiseMasks(slf, input_ids, i + 1,
                     Append(masks, r.val \o Arr([j \in 1..width |-> FALSE])),
                     Append(calls, r.calls))
            : r \in segment_spans_random_mask(slf, AttnMask(input_ids[i]))}

\* mask.astype(int) and (~mask).astype(int) of a 2-D boolean array
AsInt(masks) ==
    Arr([r \in 1..Len(masks) |->
            Arr([j \in 1..Len(masks[r]) |-> IF masks[r][j] THEN 1 ELSE 0])])
Invert(masks) ==
    Arr([r \in 1..Len(masks) |-> Arr([j \in 1..Len(masks[r]) |-> ~masks[r][j]])])

\* the task mask taking the side labels of the whole batch together: a row is
\* marked as soon as any row of the batch has an entry other than -100
TaskMask_AnyRow(ids, id, side) ==
    Arr([r \in 1..Len(ids) |->
        LET valid == \E q \in 1..Len(side) :
                         \E k \in 1..Len(side[q]) : side[q][k] # IGNORE_ID
        IN  Arr([j \in 1..Len(ids[r]) |-> ids[r][j] = id /\ valid])])

\* lines 139-142 and 145-148: True where the row holds `id` and the row's side
\* labels have an entry other than -100
TaskMask(ids, id, side) ==
    Arr([r \in 1..Len(ids) |->
        LET valid == \E k \in 1..Len(side[r]) : side[r][k] # IGNORE_ID
        IN  Arr([j \in 1..Len(ids[r]) |-> ids[r][j] = id /\ valid])])

CountTrue(mask) ==
    SeqSum(Arr([r \in 1..Len(mask) |-> Cardinality({j \in 1..Len(mask[r]) : mask[r][j]})]))

\* line 151, right-hand side: int(sum(labels[labels != -100] >= 0) / 4)
NmlLabelGroups(nml_labels) ==
    SeqSum(Arr([r \in 1..Len(nml_labels) |->
              Cardinality({k \in 1..Len(nml_labels[r]) :
                             nml_labels[r][k] # IGNORE_ID /\ nml_labels[r][k] >= 0})])) \div 4

\* the packet index as the running count of <pkt> itself (the count is not
\* taken back at the <pkt> positions)
PktSegInd_Inclusive(ids) ==
    Arr([r \in 1..Len(ids) |->
        NpCumSum(Arr([j \in 1..Len(ids[r]) |-> IF ids[r][j] = PKT_ID THEN 1 ELSE 0]))])

\* lines 155-158: exclusive prefix count of <pkt>
PktSegInd(ids) ==
    Arr([r \in 1..Len(ids) |->
        LET pkt_token_mask ==
                Arr([j \in 1..Len(ids[r]) |-> IF ids[r][j] = PKT_ID THEN 1 ELSE 0])
            cum == NpCumSum(pkt_token_mask)
        IN  Arr([j \in 1..Len(ids[r]) |-> cum[j] - pkt_token_mask[j]])])

\* flip_segment_id, lines 340-342 on one row: the turns lo..hi of the loop over
\* the columns, from output_row (the range is halved to keep the evaluation
\* shallow on long rows)
RECURSIVE FlipCols(_, _, _, _)
FlipCols(input_row, output_row, lo, hi) ==
    IF lo > hi THEN output_row
    ELSE IF lo = hi
    THEN IF input_row[lo] = 1
         THEN Arr([j \in 1..Len(output_row) |->
                      IF j >= lo THEN 1 - output_row[j] ELSE output_row[j]])
         ELSE output_row
    ELSE LET mid == (lo + hi) \div 2
             first == FlipCols(input_row, output_row, lo, mid)
         IN  IF Len(first) = 0 THEN first
             ELSE FlipCols(input_row, first, mid + 1, hi)

flip_segment_id(input_matrix) ==
    Arr([r \in 1..Len(input_matrix) |->
        FlipCols(input_matrix[r], Arr([j \in 1..Len(input_matrix[r]) |-> 1]),
                 1, Len(input_matrix[r]))])

\* lines 162-166: flipped XOR structural
HeadPayloadSegInd(ids) ==
    LET seg_token_mask ==
            Arr([r \in 1..Len(ids) |->
                Arr([j \in 1..Len(ids[r]) |->
                    IF ids[r][j] = HEAD_ID \/ ids[r][j] = PKT_ID THEN 1 ELSE 0])])
        flipped_seg_mask == flip_segment_id(seg_token_mask)
    IN  Arr([r \in 1..Len(ids) |->
            Arr([j \in 1..Len(ids[r]) |->
                IF flipped_seg_mask[r][j] # seg_token_mask[r][j] THEN 1 ELSE 0])])

\* what a collate call leaves behind: the error it raised ("none": it returned),
\* its locals, and the tensors of the returned dictionary
NoBatch(err) ==
    [err |-> err, spans_noise_masks |-> <<>>, calls |-> <<>>,
     input_sentinel |-> <<>>, label_sentinel |-> <<>>,
     input_ids |-> <<>>, labels |-> <<>>, pop_mask |-> <<>>, nml_mask |-> <<>>,
     pkt_seg_ind |-> <<>>, head_payload_seg_ind |-> <<>>,
     keys |-> {}, pop_order |-> <<>>, nml_labels |-> <<>>]

\* the keys of the returned dictionary with the padding masks of the
\* long-context collator (collator.py lines 101-108) among them
BatchKeys_WithPaddingMasks(examples) ==
    DOMAIN examples[1] \cup {"labels", "attention_mask", "decoder_attention_mask",
                             "pop_mask", "nml_mask", "pkt_seg_ind",
                             "head_payload_seg_ind"}

\* the keys of the returned dictionary: those of the first example (lines
\* 103-106) and the ones the call assigns (lines 133-166); no padding mask is
\* built (line 136)
BatchKeys(examples) ==
    DOMAIN examples[1] \cup {"labels", "pop_mask", "nml_mask", "pkt_seg_ind",
                             "head_payload_seg_ind"}

\* .shape[-1] of a 2-D array
LastDim(matrix) == Len(matrix[1])

\* lines 128-184, once the masks are drawn
Assemble(slf, examples, spans_noise_masks, calls) ==
    LET input_ids == Arr([r \in 1..Len(examples) |-> examples[r].input_ids])
        pop_order == Arr([r \in 1..Len(examples) |-> examples[r].pop_order])
        nml_labels == Arr([r \in 1..Len(examples) |-> examples[r].nml_labels])
        input_sentinel == create_sentinel_ids(AsInt(spans_noise_masks))
        label_sentinel == create_sentinel_ids(AsInt(Invert(spans_noise_masks)))
        locals == [NoBatch(NoErr) EXCEPT !.spans_noise_masks = spans_noise_masks,
                                         !.calls = calls,
                                         !.input_sentinel = input_sentinel,
                                         !.label_sentinel = label_sentinel]
        ids == filter_input_ids(input_ids, input_sentinel, slf.max_length, FALSE)
        labels == filter_input_ids(input_ids, label_sentinel, slf.max_labels_length, TRUE)
    IN  IF ids.err # NoErr THEN [locals EXCEPT !.err = ids.err]
        ELSE IF labels.err # NoErr THEN [locals EXCEPT !.err = labels.err]
        ELSE
          LET pop_mask == TaskMask(ids.val, PKT_ID, pop_order)
              nml_mask == TaskMask(ids.val, HEAD_ID, nml_labels)
          IN  IF CountTrue(nml_mask) # NmlLabelGroups(nml_labels)
              THEN [locals EXCEPT !.err = "AssertionError"]
              \* line 172 reads self.input_length, which __init__ never sets
              ELSE IF LastDim(ids.val) # slf.max_length
              THEN [locals EXCEPT !.err = "AttributeError"]
              ELSE IF LastDim(labels.val) # slf.max_labels_length
              THEN [locals EXCEPT !.err = "ValueError"]
              ELSE [locals EXCEPT !.input_ids = ids.val,
                                  !.labels = labels.val,
                                  !.pop_mask = pop_mask,
                                  !.nml_mask = nml_mask,
                                  !.pkt_seg_ind = PktSegInd(ids.val),
                                  !.head_payload_seg_ind = HeadPayloadSegInd(ids.val),
                                  !.keys = BatchKeys(examples),
                                  !.pop_order = pop_order,
                                  !.nml_labels = nml_labels]

\* DataCollatorForPretrain.__call__(examples): the outcomes it can have
DataCollatorForPretrain_call(slf, examples) ==
    LET input_ids == Arr([r \in 1..Len(examples) |-> examples[r].input_ids])
    IN  {IF m.err # NoErr THEN NoBatch(m.err)
         ELSE Assemble(slf, examples, m.val, m.calls)
         : m \in SpansNoiseMasks(slf, input_ids, 1, <<>>, <<>>)}

\* ------------------------------------------------------------------ state
VARIABLES
    pc,        \* the call about to be made, or "done"
    config,    \* the arguments DataCollatorForPretrain was constructed with
    self,      \* the collator object
    examples,  \* the examples handed to the collate call
    batch,     \* what the collate call left behind
    arg,       \* the arguments of a function called on its own
    ret        \* what that function returned or raised

vars == <<pc, config, self, examples, batch, arg, ret>>

\* ------------------------------------------------------------------ inputs
Density(n, d) == [num |-> n, den |-> d]

\* a content token: the token at position i of a row (all distinct, none a
\* special id or a sentinel id)
Tok(i) == 200 + i

\* pt_trainer._load_dataset: nml_label_gap
nml_label_gap == 4

Config(max_length, max_labels_length, optimal_len, density, mean, min_span) ==
    [max_length |-> max_length,
     max_labels_length |-> max_labels_length,
     optimal_len |-> optimal_len,
     noise_density |-> density,
     mean_noise_span_length |-> mean,
     min_mask_span_length |-> min_span]

\* a flow as the preprocessor serializes it (pt_data_process.py lines 222-248):
\* per packet the header tokens, <head>, the payload tokens, <pkt>; then -100
\* up to optim_len, at least one
PktLen(pkt) == pkt[1] + pkt[2] + 2

FlowLen(shape) == SeqSum(Arr([k \in 1..Len(shape) |-> PktLen(shape[k])]))

\* packet k of the flow, the tokens numbered by their place in the row
SerializePkt(shape, k) ==
    LET at == SeqSum(Arr([j \in 1..(k - 1) |-> PktLen(shape[j])]))
        h == shape[k][1]
        p == shape[k][2]
    IN  Arr([i \in 1..h |-> Tok(at + i)]) \o <<HEAD_ID>>
        \o Arr([i \in 1..p |-> Tok(at + h + 1 + i)]) \o <<PKT_ID>>

RECURSIVE SerializePkts(_, _, _)
SerializePkts(shape, lo, hi) ==
    IF lo > hi THEN <<>>
    ELSE IF lo = hi THEN SerializePkt(shape, lo)
    ELSE LET mid == (lo + hi) \div 2
         IN  SerializePkts(shape, lo, mid) \o SerializePkts(shape, mid + 1, hi)

Serialize(shape) == SerializePkts(shape, 1, Len(shape))

PadTo(row, n, fill) == row \o Arr([i \in 1..(n - Len(row)) |-> fill])

\* the shapes (header length, payload length per packet) of the flows that fit
FlowShapes(optim_len, pkt_per_flow) ==
    {s \in UNION {[1..n -> (0..(optim_len - 3)) \X (0..(optim_len - 3))] :
                     n \in 1..pkt_per_flow} :
        FlowLen(s) <= optim_len - 1}

\* the record of a flow: pop (whether the flow carries a pop_order) and the
\* number nml of nml_labels entries that are set
Example(shape, optim_len, pkt_per_flow, pop, nml) ==
    [input_ids |-> PadTo(Serialize(shape), optim_len, IGNORE_ID),
     pop_order |-> Arr([k \in 1..pkt_per_flow |->
                       IF pop /\ k <= Len(shape) THEN k - 1 ELSE IGNORE_ID]),
     nml_labels |-> Arr([k \in 1..(pkt_per_flow * nml_label_gap) |->
                       IF k <= nml THEN 2 ELSE IGNORE_ID])]

\* the label counts tried for a flow of n packets: one group per packet, one
\* label short, one group short
NmlCounts(n) == {nml_label_gap * n, nml_label_gap * n - 1, nml_label_gap * (n - 1)}

ExamplesOf(shape) ==
    {Example(shape, OptimLen, PktPerFlow, pop, nml) :
        pop \in BOOLEAN, nml \in NmlCounts(Len(shape))}

Examples == UNION {ExamplesOf(s) : s \in FlowShapes(OptimLen, PktPerFlow)}

\* the rows a batch is filled up with after its first: a short flow, the
\* longest one-packet flow, and a one-packet flow with the labels of two
AnchorExamples ==
    {Example(<<<<2, 0>>>>, OptimLen, PktPerFlow, FALSE, nml_label_gap),
     Example(<<<<OptimLen - 3, 0>>>>, OptimLen, PktPerFlow, TRUE, nml_label_gap),
     Example(<<<<0, 2>>>>, OptimLen, PktPerFlow, TRUE, 2 * nml_label_gap)}

RECURSIVE BatchesOf(_)
BatchesOf(n) ==
    IF n = 1 THEN {<<e>> : e \in Examples}
    ELSE {Append(b, e) : b \in BatchesOf(n - 1), e \in AnchorExamples}

Batches == UNION {BatchesOf(n) : n \in 1..MaxBatch}

\* the collators tried. Lengths: both as long as the preprocessed rows (every
\* row fits), a shorter max_length, both shorter (some rows overflow).
\* Masking: <<noise_density, mean_noise_span_length, min_mask_span_length>>;
\* min_mask_span_length 5 is the default of __init__
Configs ==
    {Config(len[1], len[2], OptimLen, m[1], m[2], m[3]) :
        len \in {<<OptimLen, OptimLen>>, <<OptimLen - 2, OptimLen>>,
                 <<OptimLen - 2, OptimLen - 5>>},
        m \in {<<Density(1, 2), 1, 2>>, <<Density(3, 4), 2, 2>>,
               <<Density(1, 2), 2, 5>>}}

\* a flow with more masked spans than there are sentinel ids: packets of a
\* two-token header and a two-token payload, one span in each under density
\* 1/2; its nml_labels hold one group per packet, or one group more
LongPkts == (extra_start_token_id + 1) \div 2
LongOptimLen == 6 * LongPkts + 1
LongShape == [k \in 1..LongPkts |-> <<2, 2>>]
LongExamples ==
    {Example(LongShape, LongOptimLen, LongPkts + 1, TRUE, nml_label_gap * n) :
        n \in {LongPkts, LongPkts + 1}}
LongConfig ==
    Config(LongOptimLen, LongOptimLen, LongOptimLen, Density(1, 2), 1, 2)

\* ------------------------------------------------------------------ the flow record preprocessor
\* itertools.groupby(input_text, key = (k != PKT_ID)), the groups of key True:
\* the runs of tokens between <pkt>
RECURSIVE GroupPackets(_, _, _, _)
GroupPackets(tokens, i, cur, acc) ==
    LET closed == IF cur = <<>> THEN acc ELSE Append(acc, cur)
    IN  IF i > Len(tokens) THEN closed
        ELSE IF tokens[i] = PKT_ID THEN GroupPackets(tokens, i + 1, <<>>, closed)
        ELSE GroupPackets(tokens, i + 1, Append(cur, tokens[i]), acc)

\* the packets with a last packet of the end-marker alone kept
PacketsOf_KeepEos(input_text) == GroupPackets(input_text, 1, <<>>, <<>>)

\* lines 185-187: the packets of a tokenized flow, a last packet that is the
\* end-marker alone removed
PacketsOf(input_text) ==
    LET packets == GroupPackets(input_text, 1, <<>>, <<>>)
        last == packets[Len(packets)]
    IN  IF last[1] = EOS_ID /\ Len(last) = 1
        THEN SubSeq(packets, 1, Len(packets) - 1)
        ELSE packets

\* list.index(x): 0-based place of the first x, -1 standing for ValueError
ListIndex(list, x) ==
    IF \E j \in 1..Len(list) : list[j] = x
    THEN (CHOOSE j \in 1..Len(list) :
              list[j] = x /\ \A q \in 1..(j - 1) : list[q] # x) - 1
    ELSE -1

\* lines 196-197: the header before <head> and the payload after it
HeaderPayload(pkt) ==
    LET at == ListIndex(pkt, HEAD_ID)
    IN  [header |-> SubSeq(pkt, 1, at), raw |-> SubSeq(pkt, at + 2, Len(pkt))]

\* int(delete_len * ratio) with ratio = len / total: the product cut to an
\* integer
IntOfShare(delete_len, len, total) == (delete_len * len) \div total

\* np.ceil(n) of a Python int n: a numpy.float64 of the same value
NpCeil(n) == [dtype |-> "float64", val |-> n]

\* list[:-stop]: a slice bound has to be an integer (a float has no
\* __index__); a bound of -0 is 0 and leaves nothing
ListDropEnd(list, stop) ==
    IF stop.dtype # "int" THEN Raise("TypeError")
    ELSE IF stop.val = 0 THEN Ok(<<>>)
    ELSE Ok(SubSeq(list, 1, Len(list) - stop.val))

\* the loops of lines 204-208 and 213-219 over the packets from k on: `part`
\* is the side that is cut, `lens` and `total` its lengths, `clear_raw` whether
\* the payload is emptied. The first slice that raises ends the call, before
\* _trunc_sanity_check is applied to its result.
RECURSIVE CutPackets(_, _, _, _, _, _, _)
CutPackets(header_payload, k, part, delete_len, lens, total, clear_raw) ==
    IF k > Len(header_payload) THEN Ok(header_payload)
    ELSE LET pkt == header_payload[k]
             side == IF part = "raw" THEN pkt.raw ELSE pkt.header
             cut == ListDropEnd(side, NpCeil(IntOfShare(delete_len, lens[k], total)))
         IN  IF cut.err # NoErr THEN Raise(cut.err)
             ELSE LET kept == IF part = "raw"
                              THEN [pkt EXCEPT !.raw = cut.val]
                              ELSE [header |-> cut.val,
                                    raw |-> IF clear_raw THEN <<>> ELSE pkt.raw]
                  IN  CutPackets([header_payload EXCEPT ![k] = kept], k + 1,
                                 part, delete_len, lens, total, clear_raw)

\* which side lines 190-219 cut for a flow: "none" when it fits
TruncBranch(current_len, packets, optim_len) ==
    LET hp == Arr([k \in 1..Len(packets) |-> HeaderPayload(packets[k])])
        delete_len == current_len - (optim_len - Len(packets) - 1)
        total_payload_len == SeqSum(Arr([k \in 1..Len(hp) |-> Len(hp[k].raw)]))
    IN  IF current_len <= optim_len THEN "none"
        ELSE IF total_payload_len >= delete_len THEN "raw"
        ELSE "header"

\* lines 190-222: the packets of a flow longer than optim_len, cut
Truncate(current_len, packets, optim_len) ==
    LET packet_num == Len(packets)
        optim_len_wo_special_tokens == optim_len - packet_num - 1
        delete_len == current_len - optim_len_wo_special_tokens
        header_payload == Arr([k \in 1..packet_num |-> HeaderPayload(packets[k])])
        raw_lens == Arr([k \in 1..packet_num |-> Len(header_payload[k].raw)])
        header_lens == Arr([k \in 1..packet_num |-> Len(header_payload[k].header)])
        total_payload_len == SeqSum(raw_lens)
        total_header_len == SeqSum(header_lens)
        cut == IF total_payload_len >= delete_len
               THEN CutPackets(header_payload, 1, "raw", delete_len, raw_lens,
                               total_payload_len, FALSE)
               ELSE IF total_header_len = 0 THEN Raise("ZeroDivisionError")
               ELSE CutPackets(header_payload, 1, "header",
                               delete_len - total_payload_len, header_lens,
                               total_header_len, TRUE)
    IN  IF \E k \in 1..packet_num : ListIndex(packets[k], HEAD_ID) < 0
        THEN Raise("ValueError")
        ELSE IF cut.err # NoErr THEN Raise(cut.err)
        ELSE Ok(Arr([k \in 1..packet_num |->
                    cut.val[k].header \o <<HEAD_ID>> \o cut.val[k].raw]))

\* np.random.choice(input_index, int(len(input_index) * pop_percent),
\* replace=False): the sets of flows it can draw (flows numbered from 0)
PopIndexChoices(n, pop_percent) ==
    {s \in SUBSET (0..(n - 1)) :
        Cardinality(s) = (n * pop_percent.num) \div pop_percent.den}

\* lines 178-181: one row of nml_labels, the labels of the flow then -100
NmlLabelRow(actual_label, width) ==
    IF Len(actual_label) > width THEN Raise("ValueError")
    ELSE Ok(PadTo(actual_label, width, IGNORE_ID))

\* the orders with the packet next to first_cand exchanged, whatever the gap
PermuteChoices_Adjacent(packet_num, pop_switch_gap) ==
    IF packet_num <= pop_switch_gap
    THEN {[first_cand |-> -1, order |-> Arr([k \in 1..packet_num |-> k - 1])]}
    ELSE {[first_cand |-> s,
           order |-> Arr([k \in 1..packet_num |->
                         IF k - 1 = s THEN s + 1
                         ELSE IF k - 1 = s + 1 THEN s
                         ELSE k - 1])] :
             s \in 0..(packet_num - pop_switch_gap - 1)}

\* the orders with a flow too short for the gap turned back to front
PermuteChoices_ShortReversed(packet_num, pop_switch_gap) ==
    IF packet_num <= pop_switch_gap
    THEN {[first_cand |-> -1,
           order |-> Arr([k \in 1..packet_num |-> packet_num - k])]}
    ELSE {[first_cand |-> s,
           order |-> Arr([k \in 1..packet_num |->
                         IF k - 1 = s THEN s + pop_switch_gap
                         ELSE IF k - 1 = s + pop_switch_gap THEN s
                         ELSE k - 1])] :
             s \in 0..(packet_num - pop_switch_gap - 1)}

\* lines 227-236: the orders a selected flow can get, packets numbered from 0;
\* first_cand is -1 when nothing is drawn
PermuteChoices(packet_num, pop_switch_gap) ==
    IF packet_num <= pop_switch_gap
    THEN {[first_cand |-> -1, order |-> Arr([k \in 1..packet_num |-> k - 1])]}
    ELSE {[first_cand |-> s,
           order |-> Arr([k \in 1..packet_num |->
                         IF k - 1 = s THEN s + pop_switch_gap
                         ELSE IF k - 1 = s + pop_switch_gap THEN s
                         ELSE k - 1])] :
             s \in 0..(packet_num - pop_switch_gap - 1)}

\* sum(packets, []) of the packets, <pkt> after each (lines 243-244)
RECURSIVE JoinPackets(_, _)
JoinPackets(packets, k) ==
    IF k > Len(packets) THEN <<>>
    ELSE packets[k] \o <<PKT_ID>> \o JoinPackets(packets, k + 1)

NoFlow(err) ==
    [err |-> err, row |-> <<>>, pop_order |-> <<>>, first_cand |-> -1]

\* one turn of the loop of lines 183-245: the outcomes for one flow
TokenizeFlow(input_text, selected, optim_len, pkt_per_flow, pop_switch_gap) ==
    LET current_len == Len(input_text)
        split == PacketsOf(input_text)
        packet_num == Len(split)
        cut == IF current_len > optim_len
               THEN Truncate(current_len, split, optim_len)
               ELSE Ok(split)
    IN  IF cut.err # NoErr THEN {NoFlow(cut.err)}
        ELSE IF ~selected
        THEN LET row == JoinPackets(cut.val, 1)
             IN  {IF Len(row) > optim_len - 1 THEN NoFlow("AssertionError")
                  ELSE [err |-> NoErr, row |-> row,
                        pop_order |-> Arr([k \in 1..pkt_per_flow |-> IGNORE_ID]),
                        first_cand |-> -1]}
        ELSE {LET packets == Arr([k \in 1..packet_num |-> cut.val[p.order[k] + 1]])
                  row == JoinPackets(packets, 1)
              IN  IF packet_num > pkt_per_flow THEN NoFlow("ValueError")
                  ELSE IF Len(row) > optim_len - 1 THEN NoFlow("AssertionError")
                  ELSE [err |-> NoErr, row |-> row,
                        pop_order |-> PadTo(p.order, pkt_per_flow, IGNORE_ID),
                        first_cand |-> p.first_cand]
              : p \in PermuteChoices(packet_num, pop_switch_gap)}

\* the loop of lines 183-245 from flow i on (flows numbered from 1 here): the
\* per-flow outcomes up to the first one that raises
RECURSIVE TokenizeFlows(_, _, _, _, _, _)
TokenizeFlows(tknzed_input, i, pop_index, optim_len, pkt_per_flow, pop_switch_gap) ==
    IF i > Len(tknzed_input) THEN {<<>>}
    ELSE UNION {IF f.err # NoErr THEN {<<f>>}
                ELSE {<<f>> \o rest :
                         rest \in TokenizeFlows(tknzed_input, i + 1, pop_index,
                                                optim_len, pkt_per_flow,
                                                pop_switch_gap)}
                : f \in TokenizeFlow(tknzed_input[i], (i - 1) \in pop_index,
                                     optim_len, pkt_per_flow, pop_switch_gap)}

NoTokenized(err) ==
    [err |-> err, input_ids |-> <<>>, pop_order |-> <<>>, nml_labels |-> <<>>,
     rows |-> <<>>, pop_index |-> {}, first_cand |-> <<>>]

\* pt_dataset.tokenize_pt_func on a batch of flows, the text of each given as
\* the tokenizer returns it and its network_model_layer as the list of its
\* labels: the outcomes it can have. rows holds the flows before the padding.
tokenize_pt_func(example, optim_len, pkt_per_flow, pop_percent, pop_switch_gap, label_gap) ==
    LET tknzed_input == example.text
        n == Len(tknzed_input)
        nml == Arr([i \in 1..n |->
                   NmlLabelRow(example.network_model_layer[i], pkt_per_flow * label_gap)])
    IN  IF \E i \in 1..n : nml[i].err # NoErr THEN {NoTokenized("ValueError")}
        ELSE UNION {
            {LET last == flows[Len(flows)]
             IN  IF last.err # NoErr THEN NoTokenized(last.err)
                 ELSE [err |-> NoErr,
                       input_ids |-> Arr([i \in 1..n |->
                                         PadTo(flows[i].row, optim_len, IGNORE_ID)]),
                       pop_order |-> Arr([i \in 1..n |-> flows[i].pop_order]),
                       nml_labels |-> Arr([i \in 1..n |-> nml[i].val]),
                       rows |-> Arr([i \in 1..n |-> flows[i].row]),
                       pop_index |-> pop_index,
                       first_cand |-> Arr([i \in 1..n |-> flows[i].first_cand])]
             : flows \in TokenizeFlows(tknzed_input, 1, pop_index, optim_len,
                                       pkt_per_flow, pop_switch_gap)}
            : pop_index \in PopIndexChoices(n, pop_percent)}

\* ------------------------------------------------------------------ the offline worker pools
\* concatenation of a sequence of sequences, in the order of the sequence
RECURSIVE Concat(_, _)
Concat(seqs, k) == IF k > Len(seqs) THEN <<>> ELSE seqs[k] \o Concat(seqs, k + 1)

\* the records of the json files: record k of file f is <<f, k>>
FileRecords(f, size) == Arr([k \in 1..size |-> <<f, k>>])

\* line 107: max_workers = min(len(self.pt_data_names), multiprocessing.cpu_count())
MaxWorkers(n_files, cpu_count) == Min(n_files, cpu_count)

\* the loaded files in the order the workers finished them
ExecutorMap_AsCompleted(loaded, finished) ==
    Arr([k \in 1..Len(finished) |-> loaded[finished[k]]])

\* line 108: list(executor.map(...)), the results in the order of the names
\* handed in, whatever the order the workers finished in
ExecutorMap(loaded, finished) == loaded

\* Dataset.map(num_proc=...): the bounds <<first, last>> of the contiguous
\* shard of rank `rank` (from 0) of n rows cut into num_shards
ShardBounds(n, num_shards, rank) ==
    LET div == n \div num_shards
        mod == n % num_shards
        start == div * rank + Min(rank, mod)
    IN  <<start + 1, start + div + (IF rank < mod THEN 1 ELSE 0)>>

\* the number of worker processes of Dataset.map: no more than rows
NumShards(n, num_proc) == Max(1, Min(n, num_proc))

\* the row a record becomes under tokenize_pt_func (one row per flow, rows
\* in the order of the flows of the batch, lines 183-249)
RowOf(record) == <<"row", record[1], record[2]>>

\* one batched call of line 118 on the rows first..last of a shard
MapBatch(shard, first, last) ==
    Arr([k \in 1..(last - first + 1) |-> RowOf(shard[first + k - 1])])

\* the state of load_and_process before anything is loaded
PoolStart(n_files) ==
    [started |-> {}, finished |-> <<>>,
     loaded |-> Arr([f \in 1..n_files |-> <<>>]),
     pt_dataset |-> <<>>, shards |-> <<>>, mapped |-> <<>>, steps |-> <<>>,
     dataset |-> <<>>]

\* ------------------------------------------------------------------ the collate call
Init ==
    /\ pc = "collate"
    /\ \/ config \in Configs /\ examples \in Batches
       \/ config = LongConfig /\ examples \in {<<e>> : e \in LongExamples}
    /\ self = DataCollatorForPretrain_init(config)
    /\ batch = NoBatch("pending")
    /\ arg = <<>>
    /\ ret = <<>>

Collate ==
    /\ pc = "collate"
    /\ batch' \in DataCollatorForPretrain_call(self, examples)
    /\ pc' = "done"
    /\ UNCHANGED <<config, self, examples, arg, ret>>

Next == Collate

Spec == Init /\ [][Next]_vars

\* ------------------------------------------------------------------ the generator alone
NoiseConfigs ==
    {Config(0, 0, 0, d, mean, 2) :
        d \in {Density(1, 4), Density(1, 2), Density(3, 4)}, mean \in {1, 2, 3}}

InitNoise ==
    /\ pc = "random_spans_noise_mask"
    /\ config \in NoiseConfigs
    /\ self = DataCollatorForPretrain_init(config)
    /\ arg \in {[length |-> n] : n \in 2..MaxSegLen}
    /\ ret = <<>>
    /\ examples = <<>>
    /\ batch = NoBatch("pending")

CallRandomSpansNoiseMask ==
    /\ pc = "random_spans_noise_mask"
    /\ ret' \in random_spans_noise_mask(self, arg.length)
    /\ pc' = "done"
    /\ UNCHANGED <<config, self, examples, batch, arg>>

NextNoise == CallRandomSpansNoiseMask

SpecNoise == InitNoise /\ [][NextNoise]_vars

\* ------------------------------------------------------------------ the masker alone
\* the flag array of the worked example: runs of 2, 3, 2 and 1 flags
ExampleFlags == <<1, 1, 0, 1, 1, 1, 0, 1, 1, 0, 1, 0>>

FlagArrays == UNION {[1..n -> {0, 1}] : n \in 1..MaxFlagsLen} \cup {ExampleFlags}

SegmentConfigs ==
    {Config(0, 0, 0, d, mean, min_span) :
        d \in {Density(1, 2), Density(3, 4)}, mean \in {1, 2}, min_span \in {2, 3}}

InitSegment ==
    /\ pc = "segment_spans_random_mask"
    /\ config \in SegmentConfigs
    /\ self = DataCollatorForPretrain_init(config)
    /\ arg \in {[attn_mask |-> f] : f \in FlagArrays}
    /\ ret = <<>>
    /\ examples = <<>>
    /\ batch = NoBatch("pending")

CallSegmentSpansRandomMask ==
    /\ pc = "segment_spans_random_mask"
    /\ ret' \in segment_spans_random_mask(self, arg.attn_mask)
    /\ pc' = "done"
    /\ UNCHANGED <<config, self, examples, batch, arg>>

NextSegment == CallSegmentSpansRandomMask

SpecSegment == InitSegment /\ [][NextSegment]_vars

\* ------------------------------------------------------------------ the encoder and the compactor alone
\* a row of n positions whose first m hold content tokens, the rest -100
TokenRow(n, m) == Arr([j \in 1..n |-> IF j <= m THEN Tok(j) ELSE IGNORE_ID])

\* a mask row of n positions, a span at every other position from `first` on
Alternating(n, first) == Arr([j \in 1..n |-> IF j % 2 = first % 2 THEN 1 ELSE 0])

\* a row and a mask over it, of width n
MaskedRows(n) ==
    {[input_ids |-> TokenRow(n, m), mask |-> f] : m \in 0..n, f \in [1..n -> {0, 1}]}

\* the rows a batch is filled up with after its first
AnchorRows(n) ==
    {[input_ids |-> TokenRow(n, n), mask |-> Alternating(n, 1)],
     [input_ids |-> TokenRow(n, n), mask |-> Arr([j \in 1..n |-> 0])]}

RECURSIVE RowBatchesOf(_, _)
RowBatchesOf(n, b) ==
    IF b = 1 THEN {<<r>> : r \in MaskedRows(n)}
    ELSE {Append(rows, r) : rows \in RowBatchesOf(n, b - 1), r \in AnchorRows(n)}

\* the width of a row with more masked spans than there are sentinel ids
LongRowLen == 2 * (extra_start_token_id + 1)

\* the width of a row with as many masked spans as there are sentinel ids
\* above the ids of the special tokens (pad 0, end-marker 1, <head> 3, <pkt> 4)
BoundRowLen == 2 * (extra_start_token_id - 5)

SentinelArgs(rows, set_length, is_label) ==
    [input_ids |-> Arr([r \in 1..Len(rows) |-> rows[r].input_ids]),
     mask_indices |-> Arr([r \in 1..Len(rows) |-> rows[r].mask]),
     sentinel_ids |-> <<>>,
     set_length |-> set_length,
     is_label |-> is_label]

InitSentinel ==
    /\ pc = "create_sentinel_ids"
    /\ \/ \E n \in 1..MaxRowLen, b \in 1..MaxBatch :
            \E rows \in RowBatchesOf(n, b),
               set_length \in {2, MaxRowLen - 1, MaxRowLen + 1},
               is_label \in BOOLEAN :
                 arg = SentinelArgs(rows, set_length, is_label)
       \/ \E n \in {BoundRowLen, LongRowLen}, first \in {0, 1}, is_label \in BOOLEAN :
            arg = SentinelArgs(
                    <<[input_ids |-> TokenRow(n, n),
                       mask |-> Alternating(n, first)]>>,
                    n + 1, is_label)
    /\ config = Config(0, 0, 0, Density(1, 2), 1, 2)
    /\ self = DataCollatorForPretrain_init(config)
    /\ ret = <<>>
    /\ examples = <<>>
    /\ batch = NoBatch("pending")

CallCreateSentinelIds ==
    /\ pc = "create_sentinel_ids"
    /\ arg' = [arg EXCEPT !.sentinel_ids = create_sentinel_ids(arg.mask_indices)]
    /\ pc' = "filter_input_ids"
    /\ UNCHANGED <<config, self, examples, batch, ret>>

CallFilterInputIds ==
    /\ pc = "filter_input_ids"
    /\ ret' = filter_input_ids(arg.input_ids, arg.sentinel_ids,
                               arg.set_length, arg.is_label)
    /\ pc' = "done"
    /\ UNCHANGED <<config, self, examples, batch, arg>>

NextSentinel == CallCreateSentinelIds \/ CallFilterInputIds

SpecSentinel == InitSentinel /\ [][NextSentinel]_vars

\* ------------------------------------------------------------------ the preprocessor alone
\* the packets tried, as <<header length, payload length>>
TokPktShapes ==
    {<<0, 0>>, <<1, 0>>, <<0, 1>>, <<0, MaxPartLen>>, <<1, MaxPartLen>>}

\* the flows tried: up to pkt_per_flow packets
TokFlowShapes(pkt_per_flow) == UNION {[1..n -> TokPktShapes] : n \in 1..pkt_per_flow}

\* the text of a flow as the tokenizer returns it: the packets, then the
\* end-marker
TokenizedText(shape) == Serialize(shape) \o <<EOS_ID>>

\* the labels of a packet, told apart by its header and payload lengths
NmlGroup(pkt) == <<0, 2, pkt[1], pkt[2]>>

RECURSIVE NmlActualLabels(_, _)
NmlActualLabels(shape, k) ==
    IF k > Len(shape) THEN <<>>
    ELSE NmlGroup(shape[k]) \o NmlActualLabels(shape, k + 1)

\* a batch of flows as datasets.map hands it over
TokExample(shapes) ==
    [text |-> Arr([i \in 1..Len(shapes) |-> TokenizedText(shapes[i])]),
     network_model_layer |-> Arr([i \in 1..Len(shapes) |-> NmlActualLabels(shapes[i], 1)])]

\* the calls tried: one flow that is selected for POP (pop_percent 1) or not
\* (1/5, the trainer's value), and two flows of which one is selected (1/2),
\* the second a three-packet flow that fits; pop_switch_gap 1 or 2
TokArgs(optim_len, pkt_per_flow) ==
    {[example |-> TokExample(shapes), optim_len |-> optim_len,
      pkt_per_flow |-> pkt_per_flow, pop_percent |-> pct,
      pop_switch_gap |-> gap, nml_label_gap |-> nml_label_gap] :
        shapes \in {<<s>> : s \in TokFlowShapes(pkt_per_flow)},
        pct \in {Density(1, 5), Density(1, 1)}, gap \in {1, 2}}
    \cup
    {[example |-> TokExample(<<s, <<<<1, 0>>, <<0, 1>>, <<0, 0>>>>>>),
      optim_len |-> optim_len, pkt_per_flow |-> pkt_per_flow,
      pop_percent |-> Density(1, 2), pop_switch_gap |-> gap,
      nml_label_gap |-> nml_label_gap] :
        s \in TokFlowShapes(pkt_per_flow), gap \in {1, 2}}

InitTokenize ==
    /\ pc = "tokenize_pt_func"
    /\ arg \in TokArgs(TokOptimLen, TokPktPerFlow)
    /\ ret = <<>>
    /\ config = <<>>
    /\ self = <<>>
    /\ examples = <<>>
    /\ batch = NoBatch("pending")

CallTokenizePtFunc ==
    /\ pc = "tokenize_pt_func"
    /\ ret' \in tokenize_pt_func(arg.example, arg.optim_len, arg.pkt_per_flow,
                                 arg.pop_percent, arg.pop_switch_gap,
                                 arg.nml_label_gap)
    /\ pc' = "done"
    /\ UNCHANGED <<config, self, examples, batch, arg>>

NextTokenize == CallTokenizePtFunc

SpecTokenize == InitTokenize /\ [][NextTokenize]_vars

\* ------------------------------------------------------------------ load_and_process
\* the calls tried: up to MaxFiles files of up to MaxFileRecords records
PoolArgs ==
    {[sizes |-> s, cpu_count |-> c, num_proc |-> NumProc, batch_size |-> MapBatchSize] :
        s \in UNION {[1..n -> 1..MaxFileRecords] : n \in 1..MaxFiles}, c \in {1, 2}}

InitPool ==
    /\ pc = "loading"
    /\ arg \in PoolArgs
    /\ ret = PoolStart(Len(arg.sizes))
    /\ config = <<>>
    /\ self = <<>>
    /\ examples = <<>>
    /\ batch = NoBatch("pending")

Running == ret.started \ {ret.finished[k] : k \in 1..Len(ret.finished)}

\* a free worker of the executor takes the next file name
StartLoad ==
    /\ pc = "loading"
    /\ Cardinality(ret.started) < Len(arg.sizes)
    /\ Cardinality(Running) < MaxWorkers(Len(arg.sizes), arg.cpu_count)
    /\ ret' = [ret EXCEPT !.started = @ \cup {Cardinality(@) + 1}]
    /\ UNCHANGED <<pc, config, self, examples, batch, arg>>

\* load_single_dataset returns in one of the workers
FinishLoad ==
    /\ pc = "loading"
    /\ \E f \in Running :
          ret' = [ret EXCEPT !.finished = Append(@, f),
                             !.loaded[f] = FileRecords(f, arg.sizes[f])]
    /\ UNCHANGED <<pc, config, self, examples, batch, arg>>

\* lines 108-110 once every file is loaded, and the sharding of line 118
ConcatenateDatasets ==
    /\ pc = "loading"
    /\ Len(ret.finished) = Len(arg.sizes)
    /\ LET pt_dataset == Concat(ExecutorMap(ret.loaded, ret.finished), 1)
           n == Len(pt_dataset)
           num_shards == NumShards(n, arg.num_proc)
           shards == Arr([r \in 1..num_shards |->
                         LET b == ShardBounds(n, num_shards, r - 1)
                         IN  SubSeq(pt_dataset, b[1], b[2])])
       IN  ret' = [ret EXCEPT !.pt_dataset = pt_dataset,
                              !.shards = shards,
                              !.mapped = Arr([r \in 1..num_shards |-> <<>>])]
    /\ pc' = "mapping"
    /\ UNCHANGED <<config, self, examples, batch, arg>>

\* the worker of one shard maps its next batch
MapNextBatch ==
    /\ pc = "mapping"
    /\ \E r \in 1..Len(ret.shards) :
          LET done == Len(ret.mapped[r])
              last == Min(done + arg.batch_size, Len(ret.shards[r]))
          IN  /\ done < Len(ret.shards[r])
              /\ ret' = [ret EXCEPT
                            !.mapped[r] = @ \o MapBatch(ret.shards[r], done + 1, last),
                            !.steps = Append(@, r)]
    /\ UNCHANGED <<pc, config, self, examples, batch, arg>>

\* line 118 returns: the mapped shards concatenated by rank
GatherShards ==
    /\ pc = "mapping"
    /\ \A r \in 1..Len(ret.shards) : Len(ret.mapped[r]) = Len(ret.shards[r])
    /\ ret' = [ret EXCEPT !.dataset = Concat(ret.mapped, 1)]
    /\ pc' = "done"
    /\ UNCHANGED <<config, self, examples, batch, arg>>

NextPool ==
    \/ StartLoad
    \/ FinishLoad
    \/ ConcatenateDatasets
    \/ MapNextBatch
    \/ GatherShards

SpecPool == InitPool /\ [][NextPool]_vars

\* ------------------------------------------------------------------ compute_input_and_target_lengths
\* the largest inputs_length tried
MaxInputsLength == 16

\* _tokens_length_to_inputs_length_targets_length: the lengths of the encoded
\* input and of the encoded target of a raw example of tokens_length tokens
NumNoiseTokens(tokens_length, noise_density) ==
    NpRound(tokens_length * noise_density.num, noise_density.den)
NumNoiseSpans(tokens_length, noise_density, mean_noise_span_length) ==
    NpRound(NumNoiseTokens(tokens_length, noise_density), mean_noise_span_length)
TokensLengthToLengths(tokens_length, noise_density, mean_noise_span_length) ==
    LET num_noise_tokens == NumNoiseTokens(tokens_length, noise_density)
        num_nonnoise_tokens == tokens_length - num_noise_tokens
        num_noise_spans ==
            NumNoiseSpans(tokens_length, noise_density, mean_noise_span_length)
    IN  [_input_length |-> num_nonnoise_tokens + num_noise_spans + 1,
         _output_length |->
            num_noise_tokens + num_noise_spans + num_noise_spans - 1 + 1]

\* the calls tried: densities that a float holds exactly, whole span lengths
LengthArgs ==
    {[inputs_length |-> n, noise_density |-> d, mean_noise_span_length |-> m] :
        n \in 1..MaxInputsLength,
        d \in {Density(1, 4), Density(1, 2), Density(3, 4)},
        m \in 1..3}

InitLengths ==
    /\ pc = "while"
    /\ arg \in LengthArgs
    /\ ret = [tokens_length |-> arg.inputs_length,
              inputs_length |-> arg.inputs_length,
              targets_length |-> 0,
              adjusted |-> FALSE]
    /\ config = <<>>
    /\ self = <<>>
    /\ examples = <<>>
    /\ batch = NoBatch("pending")

\* one pass of the while loop: tokens_length += 1
LengthsLoop ==
    /\ pc = "while"
    /\ TokensLengthToLengths(ret.tokens_length + 1, arg.noise_density,
            arg.mean_noise_span_length)._input_length <= arg.inputs_length
    /\ ret' = [ret EXCEPT !.tokens_length = @ + 1]
    /\ UNCHANGED <<pc, config, self, examples, batch, arg>>

\* the loop ends: inputs_length and targets_length are those of tokens_length
LengthsExit ==
    /\ pc = "while"
    /\ TokensLengthToLengths(ret.tokens_length + 1, arg.noise_density,
            arg.mean_noise_span_length)._input_length > arg.inputs_length
    /\ LET l == TokensLengthToLengths(ret.tokens_length, arg.noise_density,
                    arg.mean_noise_span_length)
       IN  ret' = [ret EXCEPT !.inputs_length = l._input_length,
                              !.targets_length = l._output_length]
    /\ pc' = "adjust"
    /\ UNCHANGED <<config, self, examples, batch, arg>>

\* the adjustment for noise_density == 0.5, and the return
LengthsReturn ==
    /\ pc = "adjust"
    /\ ret' = IF arg.noise_density = Density(1, 2)
                 /\ ret.targets_length > ret.inputs_length
              THEN [ret EXCEPT !.tokens_length = @ - 1,
                               !.targets_length = @ - 1,
                               !.adjusted = TRUE]
              ELSE ret
    /\ pc' = "done"
    /\ UNCHANGED <<config, self, examples, batch, arg>>

NextLengths ==
    \/ LengthsLoop
    \/ LengthsExit
    \/ LengthsReturn

SpecLengths == InitLengths /\ [][NextLengths]_vars

\* ------------------------------------------------------------------ LabelMapper
\* the length of a label list and the largest number of map_labels2i calls tried
MaxLabelLen == 2
MaxCalls == 3

\* the label lists tried: MaxLabelLen token ids, 0 is the padding that the
\* mapper filters
LabelLists == [1..MaxLabelLen -> {0, 7}]

\* str_label: the nonzero entries joined by " ". The joined string is held as
\* the tuple of its space-separated fields (the decimal numerals hold no
\* space, so two strings are equal exactly when their tuples are).
StrLabel(labels) == SelectSeq(labels, LAMBDA x : x # 0)

\* LabelMapper(): label_s2i = {}, counter = defaultdict(int)
LabelMapper == [label_s2i |-> <<>>, counter |-> <<>>]

\* map_labels2i with the next index counted from one (not the code's)
map_labels2i_FromOne(mapper, example, flag) ==
    LET str_label == StrLabel(example.labels)
        label_s2i ==
            IF str_label \notin DOMAIN mapper.label_s2i
            THEN [s \in DOMAIN mapper.label_s2i \cup {str_label} |->
                    IF s = str_label THEN Cardinality(DOMAIN mapper.label_s2i) + 1
                    ELSE mapper.label_s2i[s]]
            ELSE mapper.label_s2i
        index == label_s2i[str_label]
        counter ==
            IF flag = "train"
            THEN [i \in DOMAIN mapper.counter \cup {index} |->
                    IF i = index
                    THEN (IF i \in DOMAIN mapper.counter THEN mapper.counter[i] ELSE 0) + 1
                    ELSE mapper.counter[i]]
            ELSE mapper.counter
    IN  [mapper |-> [label_s2i |-> label_s2i, counter |-> counter],
         example |-> [example EXCEPT !.labels = <<index>>]]

\* map_labels2i: the mapper after the call and the example it returns
map_labels2i(mapper, example, flag) ==
    LET str_label == StrLabel(example.labels)
        label_s2i ==
            IF str_label \notin DOMAIN mapper.label_s2i
            THEN [s \in DOMAIN mapper.label_s2i \cup {str_label} |->
                    IF s = str_label THEN Cardinality(DOMAIN mapper.label_s2i)
                    ELSE mapper.label_s2i[s]]
            ELSE mapper.label_s2i
        index == label_s2i[str_label]
        counter ==
            IF flag = "train"
            THEN [i \in DOMAIN mapper.counter \cup {index} |->
                    IF i = index
                    THEN (IF i \in DOMAIN mapper.counter THEN mapper.counter[i] ELSE 0) + 1
                    ELSE mapper.counter[i]]
            ELSE mapper.counter
    IN  [mapper |-> [label_s2i |-> label_s2i, counter |-> counter],
         example |-> [example EXCEPT !.labels = <<index>>]]

\* _load_dataloader_for_classification: a new mapper, then train_dataset.map
\* and test_dataset.map with num_proc=1, one example after the other. self is
\* the mapper, examples the calls made so far: the labels given, the flag and
\* the example returned.
InitLabels ==
    /\ pc = "train"
    /\ self = LabelMapper
    /\ examples = <<>>
    /\ arg = <<>>
    /\ ret = <<>>
    /\ config = <<>>
    /\ batch = NoBatch("pending")

MapExample(flag) ==
    /\ pc = flag
    /\ Len(examples) < MaxCalls
    /\ \E labels \in LabelLists :
        LET r == map_labels2i(self, [labels |-> labels], flag)
        IN  /\ self' = r.mapper
            /\ ret' = r.example
            /\ examples' = Append(examples,
                    [labels |-> labels, flag |-> flag, example |-> r.example])
    /\ UNCHANGED <<pc, config, batch, arg>>

MapTrainExample == MapExample("train")

\* the training set is exhausted: the mapping is printed, the test set follows
TrainMapped ==
    /\ pc = "train"
    /\ pc' = "test"
    /\ UNCHANGED <<config, self, examples, batch, arg, ret>>

MapTestExample == MapExample("test")

TestMapped ==
    /\ pc = "test"
    /\ pc' = "done"
    /\ UNCHANGED <<config, self, examples, batch, arg, ret>>

NextLabels ==
    \/ MapTrainExample
    \/ TrainMapped
    \/ MapTestExample
    \/ TestMapped

SpecLabels == InitLabels /\ [][NextLabels]_vars

\* ------------------------------------------------------------------ pt_trainer._load_dataset
\* the largest data.input_length and data.pkt_per_flow tried
MaxTrainInputLength == 14
TrainPktPerFlow == 1

\* the while loop of compute_input_and_target_lengths from tokens_length on
RECURSIVE LengthsWhile(_, _, _, _)
LengthsWhile(tokens_length, inputs_length, noise_density, mean_noise_span_length) ==
    IF TokensLengthToLengths(tokens_length + 1, noise_density,
            mean_noise_span_length)._input_length <= inputs_length
    THEN LengthsWhile(tokens_length + 1, inputs_length, noise_density,
            mean_noise_span_length)
    ELSE tokens_length

\* compute_input_and_target_lengths(inputs_length, noise_density,
\* mean_noise_span_length): <<tokens_length, targets_length>>
compute_input_and_target_lengths(inputs_length, noise_density, mean_noise_span_length) ==
    LET tokens_length ==
            LengthsWhile(inputs_length, inputs_length, noise_density,
                         mean_noise_span_length)
        l == TokensLengthToLengths(tokens_length, noise_density,
                                   mean_noise_span_length)
    IN  IF noise_density = Density(1, 2) /\ l._output_length > l._input_length
        THEN <<tokens_length - 1, l._output_length - 1>>
        ELSE <<tokens_length, l._output_length>>

\* the data section of the training arguments tried
TrainerArgs ==
    {[input_length |-> n, mlm_probability |-> d, mean_noise_span_length |-> 3,
      pkt_per_flow |-> TrainPktPerFlow] :
        n \in (MaxTrainInputLength - 1)..MaxTrainInputLength,
        d \in {Density(1, 4), Density(1, 2)}}

\* lines 235-266: the collator that _load_dataset builds: max_length, the two
\* lengths of compute_input_and_target_lengths, min_mask_span_length left at
\* its default
TrainerConfig(data) ==
    LET max_length == data.input_length + 2 * data.pkt_per_flow + 1
        lengths == compute_input_and_target_lengths(data.input_length,
                        data.mlm_probability, data.mean_noise_span_length)
        optim_len == lengths[1]
        target_length == lengths[2]
    IN  Config(max_length, target_length, optim_len, data.mlm_probability,
               data.mean_noise_span_length, 5)

\* the collator of _load_dataset called on one record of its dataset: a flow
\* of at most pkt_per_flow packets serialized in at most optim_len - 1 tokens,
\* with one nml group per packet
InitTrainer ==
    /\ pc = "collate"
    /\ arg \in TrainerArgs
    /\ config = TrainerConfig(arg)
    /\ self = DataCollatorForPretrain_init(config)
    /\ \E s \in FlowShapes(config.optimal_len, arg.pkt_per_flow), pop \in BOOLEAN :
            examples = <<Example(s, config.optimal_len, arg.pkt_per_flow, pop,
                                 nml_label_gap * Len(s))>>
    /\ batch = NoBatch("pending")
    /\ ret = <<>>

SpecTrainer == InitTrainer /\ [][Next]_vars

\* ------------------------------------------------------------------ pt_trainer.train
\* the largest optim.total_steps and the largest number of batches the loader
\* yields in one pass
MaxTotalSteps == 6
MaxLoaderLen == 3

\* the calls tried
TrainArgs ==
    {[total_steps |-> t, num_batches |-> n] :
        t \in 0..MaxTotalSteps, n \in 1..MaxLoaderLen}

\* the test of the while loop stopping one step early (not the code's)
TrainWhileTest_Strict(current_train_step, total_steps) ==
    current_train_step < total_steps

\* line 368: the test of the while loop
TrainWhileTest(current_train_step, total_steps) ==
    current_train_step <= total_steps

\* pt_trainer.__init__: current_train_step = 1. The record also holds the
\* bookkeeping of train(): the pass over the loader, the number of batches it
\* has yielded in this pass, and the batches the model was run on, each named
\* <<pass, place in the pass>>
pt_trainer_init(args) ==
    [current_train_step |-> 1, pass |-> 0, yielded |-> 0, processed |-> <<>>]

\* the trainer is constructed, then train() is entered
InitTrain ==
    /\ pc = "while"
    /\ arg \in TrainArgs
    /\ ret = pt_trainer_init(arg)
    /\ config = <<>>
    /\ self = <<>>
    /\ examples = <<>>
    /\ batch = NoBatch("pending")

\* line 368 true: zero_grad, a new pass over train_dataloader begins
TrainWhileEnter ==
    /\ pc = "while"
    /\ TrainWhileTest(ret.current_train_step, arg.total_steps)
    /\ ret' = [ret EXCEPT !.pass = @ + 1, !.yielded = 0]
    /\ pc' = "for"
    /\ UNCHANGED <<config, self, examples, batch, arg>>

\* line 368 false: the loop is left
TrainWhileExit ==
    /\ pc = "while"
    /\ ~TrainWhileTest(ret.current_train_step, arg.total_steps)
    /\ pc' = "end_training"
    /\ UNCHANGED <<config, self, examples, batch, arg, ret>>

\* lines 370-391: the loader yields its next batch, the model is run on it and
\* current_train_step += 1
TrainStep ==
    /\ pc = "for"
    /\ ret.yielded < arg.num_batches
    /\ ret.current_train_step <= arg.total_steps
    /\ ret' = [ret EXCEPT !.yielded = @ + 1,
                          !.processed = Append(@, <<ret.pass, ret.yielded + 1>>),
                          !.current_train_step = @ + 1]
    /\ UNCHANGED <<pc, config, self, examples, batch, arg>>

\* lines 370-373: the loader yields its next batch and the loop breaks on it
TrainBreak ==
    /\ pc = "for"
    /\ ret.yielded < arg.num_batches
    /\ ret.current_train_step > arg.total_steps
    /\ ret' = [ret EXCEPT !.yielded = @ + 1]
    /\ pc' = "while"
    /\ UNCHANGED <<config, self, examples, batch, arg>>

\* line 370: the loader is exhausted
TrainPassEnd ==
    /\ pc = "for"
    /\ ret.yielded = arg.num_batches
    /\ pc' = "while"
    /\ UNCHANGED <<config, self, examples, batch, arg, ret>>

\* line 392: accelerator.end_training()
TrainEnd ==
    /\ pc = "end_training"
    /\ pc' = "done"
    /\ UNCHANGED <<config, self, examples, batch, arg, ret>>

NextTrain ==
    \/ TrainWhileEnter
    \/ TrainWhileExit
    \/ TrainStep
    \/ TrainBreak
    \/ TrainPassEnd
    \/ TrainEnd

SpecTrain == InitTrain /\ [][NextTrain]_vars

\* train() runs in one thread: as long as a statement is left to run, it runs
FairSpecTrain == SpecTrain /\ WF_vars(NextTrain)

\* ------------------------------------------------------------------ properties
\* the number of True entries of a mask and the number of its maximal True-runs
TrueCount(mask) == Cardinality({i \in 1..Len(mask) : mask[i]})
TrueRuns(mask) ==
    Cardinality({i \in 1..Len(mask) : mask[i] /\ (i = 1 \/ ~mask[i - 1])})

\* the maximal runs of 1s of a flag array: <<first position, length>>
MaximalRuns(flags) ==
    {<<i, n>> \in (1..Len(flags)) \X (1..Len(flags)) :
        /\ i + n - 1 <= Len(flags)
        /\ \A j \in i..(i + n - 1) : flags[j] = 1
        /\ i = 1 \/ flags[i - 1] = 0
        /\ i + n - 1 = Len(flags) \/ flags[i + n] = 0}

\* C1: every batch the collate call returns has one input_ids row and one
\* labels row per example, each input_ids row of exactly max_length entries and
\* each labels row of exactly max_labels_length entries, whatever the batch
\* size and the masks drawn; a call that cannot produce these shapes raises.
C1_ShapeInvariants ==
    (pc = "done" /\ batch.err = NoErr) =>
        /\ Len(batch.input_ids) = Len(examples)
        /\ Len(batch.labels) = Len(examples)
        /\ \A r \in 1..Len(examples) :
              /\ Len(batch.input_ids[r]) = config.max_length
              /\ Len(batch.labels[r]) = config.max_labels_length

\* a batch of several rows returned by a collator whose max_length and
\* max_labels_length are both shorter than the preprocessed rows
C1_Witness ==
    /\ pc = "done"
    /\ batch.err = NoErr
    /\ Len(examples) = MaxBatch
    /\ config.max_length < config.optimal_len
    /\ config.max_labels_length < config.optimal_len
    /\ \E r \in 1..Len(examples), j \in 1..config.optimal_len :
          batch.spans_noise_masks[r][j]

\* C2: for every flag array and every random choice segment_spans_random_mask
\* returns a mask of the length of its input in which every position whose
\* flag is 0 is False.
C2_StructuralExclusion ==
    pc = "done" =>
        /\ ret.err = NoErr
        /\ Len(ret.val) = Len(arg.attn_mask)
        /\ \A i \in 1..Len(arg.attn_mask) : arg.attn_mask[i] = 0 => ~ret.val[i]

\* C3: for every length >= 2, density and mean span length,
\* random_spans_noise_mask(length) returns a mask holding
\* round(length * density) clamped to [1, length - 1] True entries, in
\* round(noise_count / mean_span) clamped to >= 1 maximal True-runs.
C3_MaskDensity ==
    pc = "done" =>
        LET noise_count ==
                Min(Max(NpRound(arg.length * config.noise_density.num,
                                config.noise_density.den), 1), arg.length - 1)
        IN  /\ ret.err = NoErr
            /\ TrueCount(ret.val) = noise_count
            /\ TrueRuns(ret.val) =
                   Max(NpRound(noise_count, config.mean_noise_span_length), 1)

\* C4: random_spans_noise_mask never fails: for every length >= 2, density and
\* mean span length it returns a boolean mask of exactly `length` entries, also
\* when there are more noise spans than non-noise tokens to separate them.
C4_NeverFails ==
    pc = "done" =>
        /\ ret.err = NoErr
        /\ Len(ret.val) = arg.length
        /\ \A i \in 1..Len(ret.val) : ret.val[i] \in BOOLEAN

\* the runs the generator was called on, as <<first position, length>>
CalledRuns == {<<ret.calls[k].at, ret.calls[k].length>> : k \in 1..Len(ret.calls)}

\* the runs of the flag array that are long enough to be masked
EligibleRuns ==
    {run \in MaximalRuns(arg.attn_mask) : run[2] >= config.min_mask_span_length}

IsSpanStart(row, i) == row[i] = 1 /\ (i = 1 \/ row[i - 1] = 0)
SpanNumber(row, i) == Cardinality({j \in 1..i : IsSpanStart(row, j)})

\* C6: for every 0/1 mask row create_sentinel_ids returns a row of the same
\* length holding 107 - k at the first position of the k-th maximal masked
\* span, -1 at the other masked positions and 0 at the unmasked ones; the
\* first position is a span start iff it is masked, whatever the last
\* position holds.
C6_SentinelIds ==
    pc # "create_sentinel_ids" =>
        /\ Len(arg.sentinel_ids) = Len(arg.mask_indices)
        /\ \A r \in 1..Len(arg.mask_indices) :
              LET row == arg.mask_indices[r]
                  out == arg.sentinel_ids[r]
              IN  /\ Len(out) = Len(row)
                  /\ \A i \in 1..Len(row) :
                        out[i] = IF row[i] = 0 THEN 0
                                 ELSE IF IsSpanStart(row, i)
                                      THEN extra_start_token_id - SpanNumber(row, i)
                                      ELSE -1

\* a row masked at both ends, with two spans: the first position starts the
\* first span although the last position is masked too
C6_Witness ==
    /\ pc = "filter_input_ids"
    /\ \E r \in 1..Len(arg.mask_indices) :
          LET row == arg.mask_indices[r]
          IN  /\ Len(row) >= 3
              /\ row[1] = 1 /\ row[Len(row)] = 1
              /\ SpanNumber(row, Len(row)) = 2
              /\ arg.sentinel_ids[r][1] = extra_start_token_id - 1

\* the row the compactor works on: the sentinel ids laid over the tokens
Overlay(r) ==
    [i \in 1..Len(arg.input_ids[r]) |->
        IF arg.sentinel_ids[r][i] # 0 THEN arg.sentinel_ids[r][i] ELSE arg.input_ids[r][i]]

\* the positions of row r whose overlaid value is non-negative, and how many
\* of them the compactor retains: all for an input, all but the last for a label
KeptPositions(r) == {i \in 1..Len(arg.input_ids[r]) : Overlay(r)[i] >= 0}
RetainedCount(r) ==
    IF arg.is_label THEN Max(Cardinality(KeptPositions(r)) - 1, 0)
    ELSE Cardinality(KeptPositions(r))

\* C7: when every row's retained elements and the end-marker fit in
\* set_length, filter_input_ids returns rows of exactly set_length entries:
\* the retained elements (the non-negative ones, for a label all but the last
\* of them) in their original order, then one EOS, then only padding, the pad
\* id for inputs and -100 for labels.
C7_CompactedLayout ==
    (pc = "done" /\ \A r \in 1..Len(arg.input_ids) : RetainedCount(r) + 1 <= arg.set_length) =>
        /\ ret.err = NoErr
        /\ Len(ret.val) = Len(arg.input_ids)
        /\ \A r \in 1..Len(arg.input_ids) :
              LET kept == KeptPositions(r)
                  n == RetainedCount(r)
                  out == ret.val[r]
              IN  /\ Len(out) = arg.set_length
                  /\ \A p \in kept :
                        LET k == Cardinality({q \in kept : q <= p})
                        IN  k <= n => out[k] = Overlay(r)[p]
                  /\ out[n + 1] = EOS_ID
                  /\ \A k \in (n + 2)..arg.set_length :
                        out[k] = IF arg.is_label THEN IGNORE_ID ELSE PAD_ID

\* a label row that loses a deleted position and its last sentinel, keeps a
\* sentinel and a token, and is padded with -100
C7_Witness ==
    /\ pc = "done"
    /\ arg.is_label
    /\ ret.err = NoErr
    /\ \E r \in 1..Len(arg.input_ids) :
          /\ \E i \in 1..Len(arg.input_ids[r]) : Overlay(r)[i] = -1
          /\ RetainedCount(r) >= 2
          /\ RetainedCount(r) + 1 < arg.set_length
          /\ ret.val[r][arg.set_length] = IGNORE_ID

\* how many elements the compactor retains of a row of the collated batch
CompactedLen(row, sentinel_row, is_label) ==
    LET n == Cardinality({i \in 1..Len(row) :
                 (IF sentinel_row[i] # 0 THEN sentinel_row[i] ELSE row[i]) >= 0})
    IN  IF is_label THEN Max(n - 1, 0) ELSE n

\* some row of the batch, compacted and with its end-marker, is longer than
\* the length it has to fit
Overflows ==
    \E r \in 1..Len(examples) :
        \/ CompactedLen(examples[r].input_ids, batch.input_sentinel[r], FALSE) + 1
               > config.max_length
        \/ CompactedLen(examples[r].input_ids, batch.label_sentinel[r], TRUE) + 1
               > config.max_labels_length

\* C8: when a row of the batch, compacted and with its end-marker, is longer
\* than its target length, the collate call fails with the compactor's error
\* and returns no tensor; no batch is returned in which a row was cut or is
\* longer or shorter than the target length.
C8_OverflowRaises ==
    (pc = "done" /\ Len(batch.input_sentinel) = Len(examples)) =>
        /\ Overflows =>
              /\ batch.err = "ValueError"
              /\ batch.input_ids = <<>>
              /\ batch.labels = <<>>
        /\ batch.err = NoErr =>
              \A r \in 1..Len(examples) :
                  /\ Len(batch.input_ids[r]) = config.max_length
                  /\ Len(batch.labels[r]) = config.max_labels_length
                  /\ CompactedLen(examples[r].input_ids, batch.input_sentinel[r], FALSE)
                         < config.max_length
                  /\ CompactedLen(examples[r].input_ids, batch.label_sentinel[r], TRUE)
                         < config.max_labels_length

\* a batch whose second row is the one that overflows, the collate call failing
C8_Witness ==
    /\ pc = "done"
    /\ Len(examples) = MaxBatch
    /\ Len(batch.input_sentinel) = Len(examples)
    /\ CompactedLen(examples[1].input_ids, batch.input_sentinel[1], FALSE) + 1
           <= config.max_length
    /\ CompactedLen(examples[1].input_ids, batch.label_sentinel[1], TRUE) + 1
           <= config.max_labels_length
    /\ Overflows
    /\ batch.err = "ValueError"

\* C9: sentinel round-trip: for every token row and every mask over it, the
\* compacted input (before the end-marker) is the row with its unmasked tokens
\* kept in order and every maximal masked span replaced by its one sentinel
\* 107 - k, so that the places of the sentinels give back the span starts of
\* the mask, as many and in the same order.
C9_SentinelRoundTrip ==
    (pc = "done" /\ ~arg.is_label /\ ret.err = NoErr) =>
        \A r \in 1..Len(arg.input_ids) :
            LET row == arg.input_ids[r]
                mask == arg.mask_indices[r]
                expected == {i \in 1..Len(row) :
                                \/ mask[i] = 0 /\ row[i] # IGNORE_ID
                                \/ IsSpanStart(mask, i)}
            IN  /\ \A i \in expected :
                      ret.val[r][Cardinality({q \in expected : q <= i})] =
                          IF mask[i] = 0 THEN row[i]
                          ELSE extra_start_token_id - SpanNumber(mask, i)
                /\ ret.val[r][Cardinality(expected) + 1] = EOS_ID

\* the places of a collated row: its masked positions, and where the label row
\* and the input row hold what stands at position i
MaskRow(r) == Arr([j \in 1..Len(batch.spans_noise_masks[r]) |->
                     IF batch.spans_noise_masks[r][j] THEN 1 ELSE 0])
LabelIndex(mask, i) ==
    Cardinality({q \in 1..i : mask[q] = 1}) + SpanNumber(mask, i)
InputIndex(mask, i) ==
    Cardinality({q \in 1..i : mask[q] = 0}) + SpanNumber(mask, i)

\* C10: in every row of a returned batch no position is marked by both the
\* input mask and the label mask, the input row holds sentinel 107 - k where
\* the k-th masked span was, and the labels row is, for k = 1..K in order,
\* sentinel 107 - k followed by the tokens of the k-th masked span, then the
\* end-marker and nothing but -100: no sentinel without its counterpart.
C10_InputLabelPairing ==
    (pc = "done" /\ batch.err = NoErr) =>
        \A r \in 1..Len(examples) :
            LET row == examples[r].input_ids
                mask == MaskRow(r)
                masked == {i \in 1..Len(mask) : mask[i] = 1}
                total == LabelIndex(mask, Len(mask))
            IN  /\ \A i \in 1..Len(mask) :
                      batch.input_sentinel[r][i] = 0 \/ batch.label_sentinel[r][i] = 0
                /\ \A i \in masked :
                      /\ batch.labels[r][LabelIndex(mask, i)] = row[i]
                      /\ IsSpanStart(mask, i) =>
                            /\ batch.labels[r][LabelIndex(mask, i) - 1] =
                                   extra_start_token_id - SpanNumber(mask, i)
                            /\ batch.input_ids[r][InputIndex(mask, i)] =
                                   extra_start_token_id - SpanNumber(mask, i)
                /\ batch.labels[r][total + 1] = EOS_ID
                /\ \A k \in (total + 2)..Len(batch.labels[r]) :
                      batch.labels[r][k] = IGNORE_ID

\* whether a row of side labels has an entry other than -100, and how many
ValidSide(side) == \E k \in 1..Len(side) : side[k] # IGNORE_ID
SideCount(side) == Cardinality({k \in 1..Len(side) : side[k] # IGNORE_ID})

\* the positions of a row that hold a given id
PositionsOf(row, id) == {j \in 1..Len(row) : row[j] = id}

\* C11: in every returned batch, row by row, pop_mask is True exactly where
\* the compacted input_ids hold <pkt> if the row's pop_order has an entry
\* other than -100 and False everywhere otherwise, and nml_mask is the same
\* with <head> and the row's nml_labels; so a row with a valid pop_order has
\* as many True entries in pop_mask as it has <pkt> ids.
C11_TaskMasks ==
    (pc = "done" /\ batch.err = NoErr) =>
        \A r \in 1..Len(examples) :
            /\ Len(batch.pop_mask[r]) = Len(batch.input_ids[r])
            /\ Len(batch.nml_mask[r]) = Len(batch.input_ids[r])
            /\ {j \in 1..Len(batch.pop_mask[r]) : batch.pop_mask[r][j]} =
                   IF ValidSide(examples[r].pop_order)
                   THEN PositionsOf(batch.input_ids[r], PKT_ID) ELSE {}
            /\ {j \in 1..Len(batch.nml_mask[r]) : batch.nml_mask[r][j]} =
                   IF ValidSide(examples[r].nml_labels)
                   THEN PositionsOf(batch.input_ids[r], HEAD_ID) ELSE {}
            /\ ValidSide(examples[r].pop_order) =>
                   TrueCount(batch.pop_mask[r]) =
                       Cardinality(PositionsOf(batch.input_ids[r], PKT_ID))

\* a batch whose first row has a pop_order and no nml_labels, and whose second
\* row has nml_labels and no pop_order: each mask is set in one row only
C11_Witness ==
    /\ pc = "done"
    /\ batch.err = NoErr
    /\ Len(examples) >= 2
    /\ ValidSide(examples[1].pop_order) /\ ~ValidSide(examples[1].nml_labels)
    /\ ~ValidSide(examples[2].pop_order) /\ ValidSide(examples[2].nml_labels)
    /\ TrueCount(batch.pop_mask[1]) >= 1 /\ TrueCount(batch.nml_mask[1]) = 0
    /\ TrueCount(batch.pop_mask[2]) = 0 /\ TrueCount(batch.nml_mask[2]) >= 1
    /\ PositionsOf(batch.input_ids[1], HEAD_ID) # {}
    /\ PositionsOf(batch.input_ids[2], PKT_ID) # {}

\* C12: the collate call checks that four times the number of True entries of
\* nml_mask is the number of nml_labels entries other than -100 and raises on
\* every mismatch, also when the label count is not a multiple of 4 and when
\* the surplus of one row makes up for the deficit of another: a batch that
\* is returned has no mismatch, in the whole batch or in any of its rows.
C12_NmlCountValidated ==
    (pc = "done" /\ batch.err = NoErr) =>
        /\ 4 * CountTrue(batch.nml_mask) =
               SeqSum(Arr([r \in 1..Len(examples) |-> SideCount(examples[r].nml_labels)]))
        /\ \A r \in 1..Len(examples) :
              4 * TrueCount(batch.nml_mask[r]) = SideCount(examples[r].nml_labels)

\* C17: in every row of a returned batch pkt_seg_ind holds, at each position,
\* the number of <pkt> strictly before it: 0 up to and including the first
\* <pkt>, the same value from the token after a <pkt> up to and including the
\* next <pkt>, and one more right after each <pkt>.
C17_PktSegInd ==
    (pc = "done" /\ batch.err = NoErr) =>
        \A r \in 1..Len(examples) :
            LET row == batch.input_ids[r]
                ind == batch.pkt_seg_ind[r]
            IN  /\ Len(ind) = Len(row)
                /\ \A j \in 1..Len(row) :
                      ind[j] = Cardinality({q \in 1..(j - 1) : row[q] = PKT_ID})
                /\ ind[1] = 0
                /\ \A j \in 1..(Len(row) - 1) :
                      ind[j + 1] = ind[j] + (IF row[j] = PKT_ID THEN 1 ELSE 0)

\* a row of two packets: index 0 up to the first <pkt>, 1 up to the second, 2
\* at the end-marker
C17_Witness ==
    /\ pc = "done"
    /\ batch.err = NoErr
    /\ \E j \in 2..(Len(batch.input_ids[1]) - 1) :
          /\ batch.input_ids[1][j] = PKT_ID
          /\ batch.pkt_seg_ind[1][j] = 1
          /\ batch.pkt_seg_ind[1][j - 1] = 1
          /\ batch.input_ids[1][j + 1] = EOS_ID
          /\ batch.pkt_seg_ind[1][j + 1] = 2

\* whether position j of a row lies in a header region: no <head> and no <pkt>
\* from j up to the <head> that closes the region
InHeader(row, j) ==
    \E h \in j..Len(row) :
        /\ row[h] = HEAD_ID
        /\ \A q \in j..(h - 1) : row[q] # HEAD_ID /\ row[q] # PKT_ID

\* C18: in every row of a returned batch head_payload_seg_ind is 1 exactly at
\* the positions of a header region, the header tokens of a packet and its
\* <head>, and 0 everywhere else: payload tokens, <pkt>, the end-marker and
\* the padding.
C18_HeadPayloadSegInd ==
    (pc = "done" /\ batch.err = NoErr) =>
        \A r \in 1..Len(examples) :
            LET row == batch.input_ids[r]
                ind == batch.head_payload_seg_ind[r]
            IN  /\ Len(ind) = Len(row)
                /\ \A j \in 1..Len(row) :
                      ind[j] = IF InHeader(row, j) THEN 1 ELSE 0

\* whether every row of a 2-D array has the given width
RowsOfWidth(matrix, width) == \A r \in 1..Len(matrix) : Len(matrix[r]) = width

\* the arrays of a returned batch that are as wide as input_ids
InputShaped ==
    <<batch.input_ids, batch.pop_mask, batch.nml_mask, batch.pkt_seg_ind,
      batch.head_payload_seg_ind>>

\* C19 as stated: the returned dictionary holds input_ids, labels,
\* attention_mask, decoder_attention_mask, pop_mask, nml_mask, pkt_seg_ind and
\* head_payload_seg_ind, each of shape [batch, max_length] (attention_mask
\* being input_ids != pad has nothing to be stated of when the key is absent).
C19_Original ==
    (pc = "done" /\ batch.err = NoErr) =>
        /\ {"input_ids", "labels", "attention_mask", "decoder_attention_mask",
            "pop_mask", "nml_mask", "pkt_seg_ind", "head_payload_seg_ind"}
              \subseteq batch.keys
        /\ \A k \in 1..Len(InputShaped) :
              /\ Len(InputShaped[k]) = Len(examples)
              /\ RowsOfWidth(InputShaped[k], self.max_length)
        /\ Len(batch.labels) = Len(examples)
        /\ RowsOfWidth(batch.labels, self.max_length)

\* C19: the returned dictionary holds input_ids, labels, pop_mask, nml_mask,
\* pkt_seg_ind and head_payload_seg_ind next to the pop_order and nml_labels
\* of the examples, and neither attention_mask nor decoder_attention_mask;
\* input_ids, pop_mask, nml_mask, pkt_seg_ind and head_payload_seg_ind have
\* shape [batch, max_length] and labels has shape [batch, max_labels_length].
C19_ReturnedDictionary ==
    (pc = "done" /\ batch.err = NoErr) =>
        /\ batch.keys = {"input_ids", "labels", "pop_order", "nml_labels",
                         "pop_mask", "nml_mask", "pkt_seg_ind",
                         "head_payload_seg_ind"}
        /\ \A k \in 1..Len(InputShaped) :
              /\ Len(InputShaped[k]) = Len(examples)
              /\ RowsOfWidth(InputShaped[k], self.max_length)
        /\ Len(batch.labels) = Len(examples)
        /\ RowsOfWidth(batch.labels, self.max_labels_length)
        /\ batch.pop_order = Arr([r \in 1..Len(examples) |-> examples[r].pop_order])
        /\ batch.nml_labels = Arr([r \in 1..Len(examples) |-> examples[r].nml_labels])

\* a returned batch of two flows whose labels are narrower than its input_ids
\* and whose input_ids end in padding
C19_Witness ==
    /\ pc = "done"
    /\ batch.err = NoErr
    /\ Len(examples) = 2
    /\ self.max_labels_length < self.max_length
    /\ RowsOfWidth(batch.labels, self.max_labels_length)
    /\ batch.input_ids[1][self.max_length] = PAD_ID
    /\ "pop_mask" \in batch.keys

\* the flows of the call, numbered from 1, and what the call was given
Flows == 1..Len(arg.example.text)
Returned == pc = "done" /\ ret.err = NoErr
InPackets(i) == PacketsOf(arg.example.text[i])
OutPackets(i) == PacketsOf(ret.rows[i])
Selected(i) == (i - 1) \in ret.pop_index

\* C13: a flow whose tokenized length exceeds optim_len comes out of
\* tokenize_pt_func, before the -100 padding, at most optim_len - 1 long and
\* with as many packets as it went in with, whichever side is cut.
C13_TruncationInvariant ==
    pc = "done" =>
        \A i \in Flows :
            Len(arg.example.text[i]) > arg.optim_len =>
                /\ ret.err = NoErr
                /\ Len(ret.rows[i]) <= arg.optim_len - 1
                /\ Len(OutPackets(i)) = Len(InPackets(i))

\* C14: when a flow is selected for POP and has more packets than
\* pop_switch_gap, a start s is drawn from [0, packet_count - pop_switch_gap),
\* the packets at s and s + pop_switch_gap change places in the serialized
\* flow while every other packet stays, and the flow's pop_order holds
\* s + gap at s, s at s + gap, i at every other used slot i, and -100 from
\* packet_count on.
C14_PopSwap ==
    Returned =>
        \A i \in Flows :
            LET n == Len(InPackets(i))
                gap == arg.pop_switch_gap
                s == ret.first_cand[i]
            IN  (Selected(i) /\ n > gap) =>
                    /\ s \in 0..(n - gap - 1)
                    /\ Len(OutPackets(i)) = n
                    /\ OutPackets(i)[s + 1] = InPackets(i)[s + gap + 1]
                    /\ OutPackets(i)[s + gap + 1] = InPackets(i)[s + 1]
                    /\ \A k \in (1..n) \ {s + 1, s + gap + 1} :
                          OutPackets(i)[k] = InPackets(i)[k]
                    /\ Len(ret.pop_order[i]) = arg.pkt_per_flow
                    /\ ret.pop_order[i][s + 1] = s + gap
                    /\ ret.pop_order[i][s + gap + 1] = s
                    /\ \A k \in (1..n) \ {s + 1, s + gap + 1} :
                          ret.pop_order[i][k] = k - 1
                    /\ \A k \in (n + 1)..arg.pkt_per_flow :
                          ret.pop_order[i][k] = IGNORE_ID

\* a three-packet flow, gap 2, start 0: the first and the third packet have
\* changed places, the second has stayed, the fourth slot is unused
C14_Witness ==
    /\ Returned
    /\ Len(arg.example.text) = 1
    /\ arg.pop_switch_gap = 2
    /\ Len(InPackets(1)) = 3
    /\ InPackets(1)[1] # InPackets(1)[3]
    /\ ret.first_cand[1] = 0
    /\ OutPackets(1) = <<InPackets(1)[3], InPackets(1)[2], InPackets(1)[1]>>
    /\ ret.pop_order[1] = <<2, 1, 0, IGNORE_ID>>

\* the 4-label group at packet slot k (from 1) of flow i in the returned
\* nml_labels, and the group the call was given for the flow's packet k
NmlGroupAt(i, k) ==
    SubSeq(ret.nml_labels[i], arg.nml_label_gap * (k - 1) + 1, arg.nml_label_gap * k)
NmlGroupOf(i, k) ==
    SubSeq(arg.example.network_model_layer[i],
           arg.nml_label_gap * (k - 1) + 1, arg.nml_label_gap * k)

\* C15: after tokenize_pt_func the label group at packet slot k is the one of
\* the packet serialized at position k: where POP has put the packets at s
\* and s + gap in each other's place, their two groups have changed places
\* too.
C15_NmlFollowsPop ==
    Returned =>
        \A i \in Flows :
            \A k \in 1..Len(InPackets(i)) :
                LET q == IF Selected(i) THEN ret.pop_order[i][k] + 1 ELSE k
                IN  /\ OutPackets(i)[k] = InPackets(i)[q]
                    /\ NmlGroupAt(i, k) = NmlGroupOf(i, q)

\* C16 as stated: a flow selected for POP with no more packets than
\* pop_switch_gap keeps its packet order and its pop_order row is all -100.
C16_Original ==
    Returned =>
        \A i \in Flows :
            (Selected(i) /\ Len(InPackets(i)) <= arg.pop_switch_gap) =>
                /\ OutPackets(i) = InPackets(i)
                /\ \A k \in 1..arg.pkt_per_flow : ret.pop_order[i][k] = IGNORE_ID

\* C16: a flow selected for POP with no more packets than pop_switch_gap
\* keeps its packet order, nothing is drawn for it, and its pop_order row
\* holds the unchanged order 0, 1, ... in the slots of its packets and -100
\* in the others.
C16_ShortFlowOrder ==
    Returned =>
        \A i \in Flows :
            (Selected(i) /\ Len(InPackets(i)) <= arg.pop_switch_gap) =>
                /\ OutPackets(i) = InPackets(i)
                /\ ret.first_cand[i] = -1
                /\ \A k \in 1..arg.pkt_per_flow :
                      ret.pop_order[i][k] =
                          IF k <= Len(InPackets(i)) THEN k - 1 ELSE IGNORE_ID

\* a selected two-packet flow under gap 2: unchanged, pop_order 0, 1
C16_Witness ==
    /\ Returned
    /\ arg.pop_switch_gap = 2
    /\ Len(arg.example.text) = 1
    /\ Selected(1)
    /\ Len(InPackets(1)) = 2
    /\ InPackets(1)[1] # InPackets(1)[2]
    /\ OutPackets(1) = InPackets(1)
    /\ ret.pop_order[1] = <<0, 1, IGNORE_ID, IGNORE_ID>>

\* ceil(budget * len / total)
CeilOfShare(budget, len, total) == (budget * len + total - 1) \div total

\* C20: in the payload branch (flow longer than optim_len, total payload
\* length >= budget, budget = current_len - (optim_len - packet_num - 1))
\* every packet keeps its header, and its payload loses from its end
\* ceil(budget * its share of the total payload) tokens, to which the subword
\* sanity check adds at most two.
C20_PayloadTruncation ==
    pc = "done" =>
        \A i \in Flows :
            LET text == arg.example.text[i]
                n == Len(InPackets(i))
                budget == Len(text) - (arg.optim_len - n - 1)
                raw_len(q) == Len(HeaderPayload(InPackets(i)[q]).raw)
                total == SeqSum(Arr([q \in 1..n |-> raw_len(q)]))
            IN  TruncBranch(Len(text), InPackets(i), arg.optim_len) = "raw" =>
                  /\ ret.err = NoErr
                  /\ \A k \in 1..n :
                        LET q == IF Selected(i) THEN ret.pop_order[i][k] + 1 ELSE k
                            before == HeaderPayload(InPackets(i)[q])
                            after == HeaderPayload(OutPackets(i)[k])
                            lost == Len(before.raw) - Len(after.raw)
                            amount == CeilOfShare(budget, raw_len(q), total)
                        IN  /\ after.header = before.header
                            /\ after.raw = SubSeq(before.raw, 1, Len(after.raw))
                            /\ lost \in amount..(amount + 2)

\* C21: when the deletion budget exceeds the total payload length of a flow,
\* tokenize_pt_func does not fail: every payload comes out empty, every
\* header is cut from its end, and the flow is still returned with one
\* <head> and one <pkt> per packet.
C21_HeaderFallback ==
    pc = "done" =>
        \A i \in Flows :
            TruncBranch(Len(arg.example.text[i]), InPackets(i), arg.optim_len) = "header" =>
                /\ ret.err = NoErr
                /\ Len(OutPackets(i)) = Len(InPackets(i))
                /\ Cardinality(PositionsOf(ret.rows[i], PKT_ID)) = Len(InPackets(i))
                /\ Cardinality(PositionsOf(ret.rows[i], HEAD_ID)) = Len(InPackets(i))
                /\ \A k \in 1..Len(InPackets(i)) :
                      LET q == IF Selected(i) THEN ret.pop_order[i][k] + 1 ELSE k
                          before == HeaderPayload(InPackets(i)[q])
                          after == HeaderPayload(OutPackets(i)[k])
                      IN  /\ after.raw = <<>>
                          /\ after.header = SubSeq(before.header, 1, Len(after.header))

\* whether a row is `used` entries other than -100 followed by -100 only
RightPadded(row, used) ==
    /\ used \in 0..Len(row)
    /\ \A j \in 1..used : row[j] # IGNORE_ID
    /\ \A j \in (used + 1)..Len(row) : row[j] = IGNORE_ID

\* the packets of flow i in the order the call leaves them in
FinalPackets(i) ==
    Arr([k \in 1..Len(InPackets(i)) |->
        InPackets(i)[IF Selected(i) THEN ret.pop_order[i][k] + 1 ELSE k]])

\* C22: every input_ids row that tokenize_pt_func returns is optim_len long
\* and holds the packets in their final order, each as header tokens, <head>,
\* payload tokens, <pkt>, then -100 only, at least one, and no end-marker;
\* the pop_order rows are pkt_per_flow long and the nml_labels rows
\* pkt_per_flow * nml_label_gap, both padded with -100 on the right.
C22_RecordLayout ==
    Returned =>
        \A i \in Flows :
            LET row == ret.input_ids[i]
                body == JoinPackets(FinalPackets(i), 1)
                labels == arg.example.network_model_layer[i]
            IN  /\ Len(row) = arg.optim_len
                /\ Len(body) <= arg.optim_len - 1
                /\ SubSeq(row, 1, Len(body)) = body
                /\ RightPadded(row, Len(body))
                /\ PositionsOf(row, EOS_ID) = {}
                /\ \A k \in 1..Len(FinalPackets(i)) :
                      /\ Cardinality(PositionsOf(FinalPackets(i)[k], HEAD_ID)) = 1
                      /\ PositionsOf(FinalPackets(i)[k], PKT_ID) = {}
                /\ Len(ret.pop_order[i]) = arg.pkt_per_flow
                /\ RightPadded(ret.pop_order[i],
                               IF Selected(i) THEN Len(InPackets(i)) ELSE 0)
                /\ Len(ret.nml_labels[i]) = arg.pkt_per_flow * arg.nml_label_gap
                /\ SubSeq(ret.nml_labels[i], 1, Len(labels)) = labels
                /\ RightPadded(ret.nml_labels[i], Len(labels))

\* two flows returned, the second selected and two of its packets exchanged,
\* the first of two packets, one with a header token and one with a payload
C22_Witness ==
    /\ Returned
    /\ Len(arg.example.text) = 2
    /\ Selected(2)
    /\ ret.first_cand[2] = 0
    /\ Len(InPackets(1)) = 2
    /\ ret.input_ids[1] =
          <<201, HEAD_ID, PKT_ID, HEAD_ID, 205, 206, 207, PKT_ID,
            IGNORE_ID, IGNORE_ID, IGNORE_ID, IGNORE_ID>>
    /\ ret.pop_order[1] = <<IGNORE_ID, IGNORE_ID, IGNORE_ID, IGNORE_ID>>
    /\ Len(ret.nml_labels[1]) = 16
    /\ ret.nml_labels[1][9] = IGNORE_ID

\* the records of the call in input order: file by file, record by record
InputOrder ==
    Concat(Arr([f \in 1..Len(arg.sizes) |-> FileRecords(f, arg.sizes[f])]), 1)

\* C23: for every schedule of the workers the dataset before the shuffle
\* holds the rows in input order (files in the order of their names, records
\* in file order), and every worker has written only the rows of its own
\* file or shard.
C23_DeterministicOrder ==
    /\ pc = "mapping" => ret.pt_dataset = InputOrder
    /\ pc = "loading" =>
          \A f \in 1..Len(arg.sizes) :
              ret.loaded[f] \in {<<>>, FileRecords(f, arg.sizes[f])}
    /\ pc = "mapping" =>
          /\ Concat(ret.shards, 1) = InputOrder
          /\ \A r \in 1..Len(ret.shards) :
                ret.mapped[r] = MapBatch(ret.shards[r], 1, Len(ret.mapped[r]))
    /\ pc = "done" =>
          ret.dataset = Arr([k \in 1..Len(InputOrder) |-> RowOf(InputOrder[k])])

\* the second file was loaded before the first and the second shard mapped
\* before the first, and the dataset is in input order
C23_Witness ==
    /\ pc = "done"
    /\ Len(arg.sizes) >= 2
    /\ ret.finished[1] = 2
    /\ ret.steps[1] = 2
    /\ Len(ret.steps) > Len(ret.shards)
    /\ ret.dataset[1] = RowOf(<<1, 1>>)
    /\ ret.dataset[Len(ret.dataset)] = RowOf(<<Len(arg.sizes), arg.sizes[Len(arg.sizes)]>>)

\* the label side of row r of the collated batch: the row under the label
\* sentinels, and the place of the last element of it that is not negative (0
\* when there is none)
LabelOverlay(r) ==
    Arr([j \in 1..Len(examples[r].input_ids) |->
        IF batch.label_sentinel[r][j] # 0 THEN batch.label_sentinel[r][j]
        ELSE examples[r].input_ids[j]])
LastKept(r) ==
    LET kept == {j \in 1..Len(LabelOverlay(r)) : LabelOverlay(r)[j] >= 0}
    IN  IF kept = {} THEN 0 ELSE CHOOSE j \in kept : \A q \in kept : q <= j

\* C24: in the label extraction of every collated row the last retained
\* element, the one filter_input_ids drops, is a sentinel, the one that opens
\* the unmasked span at the end of the row, and never a token of a masked span.
C24_DroppedIsSentinel ==
    (pc = "done" /\ batch.err = NoErr) =>
        \A r \in 1..Len(examples) :
            LET last == LastKept(r)
                mask == batch.spans_noise_masks[r]
            IN  /\ last > 0
                /\ batch.label_sentinel[r][last] > 0
                /\ ~mask[last]
                /\ last = 1 \/ mask[last - 1]
                /\ \A j \in last..Len(mask) : ~mask[j]

\* the encoded input length of a raw example of T tokens under the call's
\* density and span length
EncodedInputLength(T) ==
    TokensLengthToLengths(T, arg.noise_density, arg.mean_noise_span_length)._input_length

\* C25: compute_input_and_target_lengths returns tokens_length >= inputs_length,
\* the largest raw length whose encoded input length T - N + S + 1 does not
\* exceed inputs_length, and targets_length = N + 2 S for that length (the
\* calls that take the adjustment for density 0.5 apart).
C25_LargestFit ==
    (pc = "done" /\ ~ret.adjusted) =>
        LET T == ret.tokens_length
            N == NumNoiseTokens(T, arg.noise_density)
            S == NumNoiseSpans(T, arg.noise_density, arg.mean_noise_span_length)
        IN  /\ T >= arg.inputs_length
            /\ T - N + S + 1 <= arg.inputs_length
            /\ \A U \in (T + 1)..(2 * MaxInputsLength + 4) :
                    EncodedInputLength(U) > arg.inputs_length
            /\ ret.targets_length = N + 2 * S

\* the label strings seen in the calls made so far, and the place of the
\* first call that showed string s
SeenLabels == {StrLabel(examples[k].labels) : k \in 1..Len(examples)}
FirstSeen(s) ==
    CHOOSE k \in 1..Len(examples) :
        /\ StrLabel(examples[k].labels) = s
        /\ \A q \in 1..(k - 1) : StrLabel(examples[q].labels) # s

\* C26: after any sequence of map_labels2i calls label_s2i is a bijection
\* between the label strings seen so far and 0..n-1, the indices follow the
\* order in which the strings were first seen, every call wrote the index of
\* its label string into the example's labels, and that index is still the
\* string's index (an index once assigned never changes).
C26_LabelBijection ==
    (pc \in {"train", "test", "done"} /\ DOMAIN self = {"label_s2i", "counter"}) =>
        LET label_s2i == self.label_s2i
            n == Cardinality(SeenLabels)
        IN  /\ DOMAIN label_s2i = SeenLabels
            /\ {label_s2i[s] : s \in SeenLabels} = 0..(n - 1)
            /\ \A s, t \in SeenLabels : label_s2i[s] = label_s2i[t] => s = t
            /\ \A s, t \in SeenLabels :
                    FirstSeen(s) < FirstSeen(t) => label_s2i[s] < label_s2i[t]
            /\ \A k \in 1..Len(examples) :
                    examples[k].example.labels =
                        <<label_s2i[StrLabel(examples[k].labels)]>>

\* three calls: two different label strings, the second one again in the test
\* set under another padding
C26_Witness ==
    /\ pc = "done"
    /\ Len(examples) = 3
    /\ examples[1].labels = <<7, 7>> /\ examples[1].flag = "train"
    /\ examples[2].labels = <<7, 0>> /\ examples[2].flag = "train"
    /\ examples[3].labels = <<0, 7>> /\ examples[3].flag = "test"
    /\ examples[3].example.labels = <<1>>
    /\ self.label_s2i[<<7>>] = 1

\* the elements of row r that the compaction under sentinel_ids retains
Retained(r, sentinel_ids) ==
    Cardinality({j \in 1..Len(examples[r].input_ids) :
        IF sentinel_ids[r][j] # 0 THEN sentinel_ids[r][j] >= 0
        ELSE examples[r].input_ids[j] >= 0})

\* C27: under the lengths that _load_dataset configures, every record the
\* preprocessor can emit and every mask drawn compact to at most max_length - 1
\* input tokens and at most max_labels_length - 1 label tokens: filter_input_ids
\* does not overflow.
C27_NoOverflow ==
    (pc = "done" /\ "input_length" \in DOMAIN arg /\ batch.spans_noise_masks # <<>>) =>
        \A r \in 1..Len(examples) :
            /\ Retained(r, batch.input_sentinel) <= config.max_length - 1
            /\ Retained(r, batch.label_sentinel) - 1 <= config.max_labels_length - 1
            /\ batch.err # "ValueError"

\* the structural tokens of a row, in order
IsStructural(x) == x \in {HEAD_ID, PKT_ID}
Structural(row) == SelectSeq(row, IsStructural)

\* the places of row r that the input compaction retains, and the place in
\* the compacted row where the token at j lands
InputKept(r) ==
    {j \in 1..Len(examples[r].input_ids) :
        IF batch.input_sentinel[r][j] # 0 THEN batch.input_sentinel[r][j] >= 0
        ELSE examples[r].input_ids[j] >= 0}
InputPlace(r, j) == Cardinality({q \in InputKept(r) : q <= j})

Sentinels(r) ==
    {arg.sentinel_ids[r][i] : i \in {j \in 1..Len(arg.mask_indices[r]) :
                                        IsSpanStart(arg.mask_indices[r], j)}}

\* C29: the k-th masked span of a row gets the sentinel 107 - k; in a row of
\* at most 102 masked spans the sentinels are pairwise distinct integers of
\* 5..106: none is the id of pad, end-marker, <head> or <pkt>, none is 0 and
\* none is negative, so on the input side the compaction keeps one element
\* per span, the sentinel.
C29_SentinelRange ==
    pc # "create_sentinel_ids" =>
        \A r \in 1..Len(arg.mask_indices) :
            LET row == arg.mask_indices[r]
                starts == {i \in 1..Len(row) : IsSpanStart(row, i)}
            IN  /\ \A i \in starts :
                    arg.sentinel_ids[r][i] = extra_start_token_id - SpanNumber(row, i)
                /\ Cardinality(starts) <= extra_start_token_id - 5 =>
                    /\ Cardinality(Sentinels(r)) = Cardinality(starts)
                    /\ Sentinels(r) \subseteq 5..(extra_start_token_id - 1)
                    /\ Sentinels(r) \cap {PAD_ID, EOS_ID, HEAD_ID, PKT_ID} = {}
                    /\ \A s \in Sentinels(r) : s # 0 /\ s >= 0
                    /\ (pc = "done" /\ ~arg.is_label /\ ret.err = NoErr) =>
                            \A s \in Sentinels(r) :
                                Cardinality({q \in 1..Len(ret.val[r]) :
                                                ret.val[r][q] = s}) = 1

\* the row of exactly 102 masked spans, compacted: the last span has the
\* sentinel 5
C29_Witness ==
    /\ pc = "done"
    /\ ret.err = NoErr
    /\ ~arg.is_label
    /\ Len(arg.mask_indices[1]) = BoundRowLen
    /\ arg.mask_indices[1][1] = 1
    /\ Cardinality(Sentinels(1)) = extra_start_token_id - 5
    /\ arg.sentinel_ids[1][BoundRowLen - 1] = 5
    /\ 5 \in {ret.val[1][q] : q \in 1..Len(ret.val[1])}

\* the k-th batch that the loader yields when every pass is run to its end
YieldedAt(k) == <<((k - 1) \div arg.num_batches) + 1, ((k - 1) % arg.num_batches) + 1>>

\* what holds at every point of train(): current_train_step started at 1 and
\* went up by one per processed batch, the batches were processed in the order
\* the loader yielded them, pass after pass, and never more than total_steps
TrainCounting ==
    /\ ret.current_train_step = 1 + Len(ret.processed)
    /\ Len(ret.processed) <= arg.total_steps
    /\ \A k \in 1..Len(ret.processed) : ret.processed[k] = YieldedAt(k)
    /\ pc \in {"end_training", "done"} => Len(ret.processed) = arg.total_steps

\* C30: train() terminates for every total_steps >= 0 when the loader yields
\* at least one batch per pass; the batches are processed in the order the
\* loader yields them, current_train_step starts at 1 and goes up by one per
\* processed batch, and the model has been run on exactly total_steps batches
\* at the end, none after current_train_step exceeded total_steps.
C30_TrainTerminates ==
    /\ []TrainCounting
    /\ <>(pc = "done" /\ Len(ret.processed) = arg.total_steps)

\* a run of 5 steps over a loader of 3 batches: a full pass, then a pass
\* broken off at its third batch
C30_Witness ==
    /\ pc = "done"
    /\ "total_steps" \in DOMAIN arg
    /\ arg.total_steps = 5
    /\ arg.num_batches = 3
    /\ ret.pass = 2
    /\ ret.yielded = 3
    /\ ret.processed = <<<<1, 1>>, <<1, 2>>, <<1, 3>>, <<2, 1>>, <<2, 2>>>>

====
